---- MODULE Spec2Model ----
(***************************************************************************)
(* A model of the QR-code generator core: the module matrix of qrcode.rs   *)
(* (QrCode::new / get / put) and the Reed-Solomon error-correction         *)
(* pipeline of ec.rs (create_ec_for_block / interleave / error_correction) *)
(* together with the parameter tables the pipeline reads.                  *)
(*                                                                         *)
(* Rust vectors and arrays are 0-based; the tables below are TLA+ tuples,  *)
(* read through At0.  Option values are modelled as sequences of length 0  *)
(* (None) or 1 (Some(v)); a call that may panic yields Ok(v) or Panicked.  *)
(* Loops over long vectors are unfolded by halving their index range, so   *)
(* that the evaluation depth stays logarithmic in the vector length.       *)
(***************************************************************************)
EXTENDS Integers, Sequences, FiniteSets, TLC

VARIABLES
  result,        \* outcome of QrCode::new: "pending", "Ok" or "Err"
  error,         \* the Err payload of QrCode::new ("" when there is none)
  data,          \* QrCode.data: the modules, a function on 0..S*S-1
  version,       \* QrCode.version (before construction: the argument)
  ec_level,      \* QrCode.ec_level (before construction: the argument)
  mask_pattern,  \* QrCode.mask_pattern (before construction: the argument)
  ret,           \* what the last get / put call returned
  nops,          \* number of get / put calls made on the matrix so far
  ec_call,       \* the call of ec.rs under way: function name and arguments
  ec_ret,        \* its outcome: status "pending", "returned" or "panicked",
                 \* and the value returned
  walk           \* the call of QrCode::fill under way: its position, its
                 \* argument, its locals and the puts it has made

vars == <<result, error, data, version, ec_level, mask_pattern, ret, nops,
          ec_call, ec_ret, walk>>

qrVars == <<result, error, data, version, ec_level, mask_pattern, ret, nops,
            walk>>

-----------------------------------------------------------------------------
(* Bounds of the exploration.                                              *)

\* get / put calls made on one matrix
MaxOps == 2

\* codewords in a block handed to create_ec_for_block or interleave
MaxBlockLen == 3

\* blocks handed to interleave
MaxBlocks == 3

\* the largest version of a matrix handed to fill
MaxFillVersion == 2

-----------------------------------------------------------------------------
(* Values.                                                                 *)

None == <<>>
Some(v) == <<v>>

\* the outcome of a call that may panic
Ok(v) == [panic |-> FALSE, val |-> v]
Panicked == [panic |-> TRUE, val |-> <<>>]

\* Bit::Zero(functional) and Bit::One(functional)
Zero(functional) == [value |-> 0, functional |-> functional]
One(functional) == [value |-> 1, functional |-> functional]
Bits == {Zero(FALSE), Zero(TRUE), One(FALSE), One(TRUE)}

\* the four variants of EcLevel
EcLevels == {"L", "M", "Q", "H"}

\* the values of a u8
U8 == 0..255

\* element i (0-based) of the tuple t
At0(t, i) == t[i + 1]


-----------------------------------------------------------------------------
(* ec.rs: the parameter tables.                                            *)

\* EcLevel::ordinal
ordinal(level) ==
  CASE level = "L" -> 0
    [] level = "M" -> 1
    [] level = "Q" -> 2
    [] level = "H" -> 3

EC_BYTES_PER_BLOCK ==
  <<<<7, 10, 13, 17>>, <<10, 16, 22, 28>>, <<15, 26, 18, 22>>, <<20, 18, 26, 16>>, <<26, 24, 18, 22>>,
    <<18, 16, 24, 28>>, <<20, 18, 18, 26>>, <<24, 22, 22, 26>>, <<30, 22, 20, 24>>, <<18, 26, 24, 28>>,
    <<20, 30, 28, 24>>, <<24, 22, 26, 28>>, <<26, 22, 24, 22>>, <<30, 24, 20, 24>>, <<22, 24, 30, 24>>,
    <<24, 28, 24, 30>>, <<28, 28, 28, 28>>, <<30, 26, 28, 28>>, <<28, 26, 26, 26>>, <<28, 26, 30, 28>>,
    <<28, 26, 28, 30>>, <<28, 28, 30, 24>>, <<30, 28, 30, 30>>, <<30, 28, 30, 30>>, <<26, 28, 30, 30>>,
    <<28, 28, 28, 30>>, <<30, 28, 30, 30>>, <<30, 28, 30, 30>>, <<30, 28, 30, 30>>, <<30, 28, 30, 30>>,
    <<30, 28, 30, 30>>, <<30, 28, 30, 30>>, <<30, 28, 30, 30>>, <<30, 28, 30, 30>>, <<30, 28, 30, 30>>,
    <<30, 28, 30, 30>>, <<30, 28, 30, 30>>, <<30, 28, 30, 30>>, <<30, 28, 30, 30>>, <<30, 28, 30, 30>>>>

EXP_TABLE ==
  <<1, 2, 4, 8, 16, 32, 64, 128, 29, 58, 116, 232, 205, 135, 19, 38,
    76, 152, 45, 90, 180, 117, 234, 201, 143, 3, 6, 12, 24, 48, 96, 192,
    157, 39, 78, 156, 37, 74, 148, 53, 106, 212, 181, 119, 238, 193, 159, 35,
    70, 140, 5, 10, 20, 40, 80, 160, 93, 186, 105, 210, 185, 111, 222, 161,
    95, 190, 97, 194, 153, 47, 94, 188, 101, 202, 137, 15, 30, 60, 120, 240,
    253, 231, 211, 187, 107, 214, 177, 127, 254, 225, 223, 163, 91, 182, 113, 226,
    217, 175, 67, 134, 17, 34, 68, 136, 13, 26, 52, 104, 208, 189, 103, 206,
    129, 31, 62, 124, 248, 237, 199, 147, 59, 118, 236, 197, 151, 51, 102, 204,
    133, 23, 46, 92, 184, 109, 218, 169, 79, 158, 33, 66, 132, 21, 42, 84,
    168, 77, 154, 41, 82, 164, 85, 170, 73, 146, 57, 114, 228, 213, 183, 115,
    230, 209, 191, 99, 198, 145, 63, 126, 252, 229, 215, 179, 123, 246, 241, 255,
    227, 219, 171, 75, 150, 49, 98, 196, 149, 55, 110, 220, 165, 87, 174, 65,
    130, 25, 50, 100, 200, 141, 7, 14, 28, 56, 112, 224, 221, 167, 83, 166,
    81, 162, 89, 178, 121, 242, 249, 239, 195, 155, 43, 86, 172, 69, 138, 9,
    18, 36, 72, 144, 61, 122, 244, 245, 247, 243, 251, 235, 203, 139, 11, 22,
    44, 88, 176, 125, 250, 233, 207, 131, 27, 54, 108, 216, 173, 71, 142, 1>>

LOG_TABLE ==
  <<255, 0, 1, 25, 2, 50, 26, 198, 3, 223, 51, 238, 27, 104, 199, 75,
    4, 100, 224, 14, 52, 141, 239, 129, 28, 193, 105, 248, 200, 8, 76, 113,
    5, 138, 101, 47, 225, 36, 15, 33, 53, 147, 142, 218, 240, 18, 130, 69,
    29, 181, 194, 125, 106, 39, 249, 185, 201, 154, 9, 120, 77, 228, 114, 166,
    6, 191, 139, 98, 102, 221, 48, 253, 226, 152, 37, 179, 16, 145, 34, 136,
    54, 208, 148, 206, 143, 150, 219, 189, 241, 210, 19, 92, 131, 56, 70, 64,
    30, 66, 182, 163, 195, 72, 126, 110, 107, 58, 40, 84, 250, 133, 186, 61,
    202, 94, 155, 159, 10, 21, 121, 43, 78, 212, 229, 172, 115, 243, 167, 87,
    7, 112, 192, 247, 140, 128, 99, 13, 103, 74, 222, 237, 49, 197, 254, 24,
    227, 165, 153, 119, 38, 184, 180, 124, 17, 68, 146, 217, 35, 32, 137, 46,
    55, 63, 209, 91, 149, 188, 207, 205, 144, 135, 151, 178, 220, 252, 190, 97,
    242, 86, 211, 171, 20, 42, 93, 158, 132, 60, 57, 83, 71, 109, 65, 162,
    31, 45, 67, 216, 183, 123, 164, 118, 196, 23, 73, 236, 127, 12, 111, 246,
    108, 161, 59, 82, 41, 157, 85, 170, 251, 96, 134, 177, 187, 204, 62, 90,
    203, 89, 95, 176, 156, 169, 160, 81, 11, 245, 22, 235, 122, 117, 44, 215,
    79, 174, 213, 233, 230, 231, 173, 232, 116, 214, 244, 234, 168, 80, 88, 175>>

GENERATOR_POLYNOMIALS ==
  <<<<>>,
    <<0>>,
    <<25, 1>>,
    <<198, 199, 3>>,
    <<75, 249, 78, 6>>,
    <<113, 164, 166, 119, 10>>,
    <<166, 0, 134, 5, 176, 15>>,
    <<87, 229, 146, 149, 238, 102, 21>>,
    <<175, 238, 208, 249, 215, 252, 196, 28>>,
    <<95, 246, 137, 231, 235, 149, 11, 123, 36>>,
    <<251, 67, 46, 61, 118, 70, 64, 94, 32, 45>>,
    <<220, 192, 91, 194, 172, 177, 209, 116, 227, 10, 55>>,
    <<102, 43, 98, 121, 187, 113, 198, 143, 131, 87, 157, 66>>,
    <<74, 152, 176, 100, 86, 100, 106, 104, 130, 218, 206, 140, 78>>,
    <<199, 249, 155, 48, 190, 124, 218, 137, 216, 87, 207, 59, 22, 91>>,
    <<8, 183, 61, 91, 202, 37, 51, 58, 58, 237, 140, 124, 5, 99, 105>>,
    <<120, 104, 107, 109, 102, 161, 76, 3, 91, 191, 147, 169, 182, 194, 225, 120>>,
    <<43, 139, 206, 78, 43, 239, 123, 206, 214, 147, 24, 99, 150, 39, 243, 163, 136>>,
    <<215, 234, 158, 94, 184, 97, 118, 170, 79, 187, 152, 148, 252, 179, 5, 98, 96, 153>>,
    <<67, 3, 105, 153, 52, 90, 83, 17, 150, 159, 44, 128, 153, 133, 252, 222, 138, 220, 171>>,
    <<17, 60, 79, 50, 61, 163, 26, 187, 202, 180, 221, 225, 83, 239, 156, 164, 212, 212, 188, 190>>,
    <<240, 233, 104, 247, 181, 140, 67, 98, 85, 200, 210, 115, 148, 137, 230, 36, 122, 254, 148, 175,
      210>>,
    <<210, 171, 247, 242, 93, 230, 14, 109, 221, 53, 200, 74, 8, 172, 98, 80, 219, 134, 160, 105,
      165, 231>>,
    <<171, 102, 146, 91, 49, 103, 65, 17, 193, 150, 14, 25, 183, 248, 94, 164, 224, 192, 1, 78,
      56, 147, 253>>,
    <<229, 121, 135, 48, 211, 117, 251, 126, 159, 180, 169, 152, 192, 226, 228, 218, 111, 0, 117, 232,
      87, 96, 227, 21>>,
    <<231, 181, 156, 39, 170, 26, 12, 59, 15, 148, 201, 54, 66, 237, 208, 99, 167, 144, 182, 95,
      243, 129, 178, 252, 45>>,
    <<173, 125, 158, 2, 103, 182, 118, 17, 145, 201, 111, 28, 165, 53, 161, 21, 245, 142, 13, 102,
      48, 227, 153, 145, 218, 70>>,
    <<79, 228, 8, 165, 227, 21, 180, 29, 9, 237, 70, 99, 45, 58, 138, 135, 73, 126, 172, 94,
      216, 193, 157, 26, 17, 149, 96>>,
    <<168, 223, 200, 104, 224, 234, 108, 180, 110, 190, 195, 147, 205, 27, 232, 201, 21, 43, 245, 87,
      42, 195, 212, 119, 242, 37, 9, 123>>,
    <<156, 45, 183, 29, 151, 219, 54, 96, 249, 24, 136, 5, 241, 175, 189, 28, 75, 234, 150, 148,
      23, 9, 202, 162, 68, 250, 140, 24, 151>>,
    <<41, 173, 145, 152, 216, 31, 179, 182, 50, 48, 110, 86, 239, 96, 222, 125, 42, 173, 226, 193,
      224, 130, 156, 37, 251, 216, 238, 40, 192, 180>>,
    <<20, 37, 252, 93, 63, 75, 225, 31, 115, 83, 113, 39, 44, 73, 122, 137, 118, 119, 144, 248,
      248, 55, 1, 225, 105, 123, 183, 117, 187, 200, 210>>,
    <<10, 6, 106, 190, 249, 167, 4, 67, 209, 138, 138, 32, 242, 123, 89, 27, 120, 185, 80, 156,
      38, 69, 171, 60, 28, 222, 80, 52, 254, 185, 220, 241>>,
    <<245, 231, 55, 24, 71, 78, 76, 81, 225, 212, 173, 37, 215, 46, 119, 229, 245, 167, 126, 72,
      181, 94, 165, 210, 98, 125, 159, 184, 169, 232, 185, 231, 18>>,
    <<111, 77, 146, 94, 26, 21, 108, 19, 105, 94, 113, 193, 86, 140, 163, 125, 58, 158, 229, 239,
      218, 103, 56, 70, 114, 61, 183, 129, 167, 13, 98, 62, 129, 51>>,
    <<7, 94, 143, 81, 247, 127, 202, 202, 194, 125, 146, 29, 138, 162, 153, 65, 105, 122, 116, 238,
      26, 36, 216, 112, 125, 228, 15, 49, 8, 162, 30, 126, 111, 58, 85>>,
    <<200, 183, 98, 16, 172, 31, 246, 234, 60, 152, 115, 0, 167, 152, 113, 248, 238, 107, 18, 63,
      218, 37, 87, 210, 105, 177, 120, 74, 121, 196, 117, 251, 113, 233, 30, 120>>,
    <<154, 75, 141, 180, 61, 165, 104, 232, 46, 227, 96, 178, 92, 135, 57, 162, 120, 194, 212, 174,
      252, 183, 42, 35, 157, 111, 23, 133, 100, 8, 105, 37, 192, 189, 159, 19, 156>>,
    <<159, 34, 38, 228, 230, 59, 243, 95, 49, 218, 176, 164, 20, 65, 45, 111, 39, 81, 49, 118,
      113, 222, 193, 250, 242, 168, 217, 41, 164, 247, 177, 30, 238, 18, 120, 153, 60, 193>>,
    <<81, 216, 174, 47, 200, 150, 59, 156, 89, 143, 89, 166, 183, 170, 152, 21, 165, 177, 113, 132,
      234, 5, 154, 68, 124, 175, 196, 157, 249, 233, 83, 24, 153, 241, 126, 36, 116, 19, 231>>,
    <<59, 116, 79, 161, 252, 98, 128, 205, 128, 161, 247, 57, 163, 56, 235, 106, 53, 26, 187, 174,
      226, 104, 170, 7, 175, 35, 181, 114, 88, 41, 47, 163, 125, 134, 72, 20, 232, 53, 35, 15>>,
    <<132, 167, 52, 139, 184, 223, 149, 92, 250, 18, 83, 33, 127, 109, 194, 7, 211, 242, 109, 66,
      86, 169, 87, 96, 187, 159, 114, 172, 118, 208, 183, 200, 82, 179, 38, 39, 34, 242, 142, 147,
      55>>,
    <<250, 103, 221, 230, 25, 18, 137, 231, 0, 3, 58, 242, 221, 191, 110, 84, 230, 8, 188, 106,
      96, 147, 15, 131, 139, 34, 101, 223, 39, 101, 213, 199, 237, 254, 201, 123, 171, 162, 194, 117,
      50, 96>>,
    <<96, 67, 3, 245, 217, 215, 33, 65, 240, 109, 144, 63, 21, 131, 38, 101, 153, 128, 55, 31,
      237, 3, 94, 160, 20, 87, 77, 56, 191, 123, 207, 75, 82, 0, 122, 132, 101, 145, 215, 15,
      121, 192, 138>>,
    <<190, 7, 61, 121, 71, 246, 69, 55, 168, 188, 89, 243, 191, 25, 72, 123, 9, 145, 14, 247,
      1, 238, 44, 78, 143, 62, 224, 126, 118, 114, 68, 163, 52, 194, 217, 147, 204, 169, 37, 130,
      113, 102, 73, 181>>,
    <<6, 172, 72, 250, 18, 171, 171, 162, 229, 187, 239, 4, 187, 11, 37, 228, 102, 72, 102, 22,
      33, 73, 95, 99, 132, 1, 15, 89, 4, 112, 130, 95, 211, 235, 227, 58, 35, 88, 132, 23,
      44, 165, 54, 187, 225>>,
    <<112, 94, 88, 112, 253, 224, 202, 115, 187, 99, 89, 5, 54, 113, 129, 44, 58, 16, 135, 216,
      169, 211, 36, 1, 4, 96, 60, 241, 73, 104, 234, 8, 249, 245, 119, 174, 52, 25, 157, 224,
      43, 202, 223, 19, 82, 15>>,
    <<76, 164, 229, 92, 79, 168, 219, 110, 104, 21, 220, 74, 19, 199, 195, 100, 93, 191, 43, 213,
      72, 56, 138, 161, 125, 187, 119, 250, 189, 137, 190, 76, 126, 247, 93, 30, 132, 6, 58, 213,
      208, 165, 224, 152, 133, 91, 61>>,
    <<228, 25, 196, 130, 211, 146, 60, 24, 251, 90, 39, 102, 240, 61, 178, 63, 46, 123, 115, 18,
      221, 111, 135, 160, 182, 205, 107, 206, 95, 150, 120, 184, 91, 21, 247, 156, 140, 238, 191, 11,
      94, 227, 84, 50, 163, 39, 34, 108>>,
    <<172, 121, 1, 41, 193, 222, 237, 64, 109, 181, 52, 120, 212, 226, 239, 245, 208, 20, 246, 34,
      225, 204, 134, 101, 125, 206, 69, 138, 250, 0, 77, 58, 143, 185, 220, 254, 210, 190, 112, 88,
      91, 57, 90, 109, 5, 13, 181, 25, 156>>,
    <<232, 125, 157, 161, 164, 9, 118, 46, 209, 99, 203, 193, 35, 3, 209, 111, 195, 242, 203, 225,
      46, 13, 32, 160, 126, 209, 130, 160, 242, 215, 242, 75, 77, 42, 189, 32, 113, 65, 124, 69,
      228, 114, 235, 175, 124, 170, 215, 232, 133, 205>>,
    <<213, 166, 142, 43, 10, 216, 141, 163, 172, 180, 102, 70, 89, 62, 222, 62, 42, 210, 151, 163,
      218, 70, 77, 39, 166, 191, 114, 202, 245, 188, 183, 221, 75, 212, 27, 237, 127, 204, 235, 62,
      190, 232, 18, 46, 171, 15, 98, 247, 66, 163, 0>>,
    <<116, 50, 86, 186, 50, 220, 251, 89, 192, 46, 86, 127, 124, 19, 184, 233, 151, 215, 22, 14,
      59, 145, 37, 242, 203, 134, 254, 89, 190, 94, 59, 65, 124, 113, 100, 233, 235, 121, 22, 76,
      86, 97, 39, 242, 200, 220, 101, 33, 239, 254, 116, 51>>,
    <<122, 214, 231, 136, 199, 11, 6, 205, 124, 72, 213, 117, 187, 60, 147, 201, 73, 75, 33, 146,
      171, 247, 118, 208, 157, 177, 203, 235, 83, 45, 226, 202, 229, 168, 7, 57, 237, 235, 200, 124,
      106, 254, 165, 14, 147, 0, 57, 42, 31, 178, 213, 173, 103>>,
    <<183, 26, 201, 87, 210, 221, 113, 21, 46, 65, 45, 50, 238, 184, 249, 225, 102, 58, 209, 218,
      109, 165, 26, 95, 184, 192, 52, 245, 35, 254, 238, 175, 172, 79, 123, 25, 122, 43, 120, 108,
      215, 80, 128, 201, 235, 8, 153, 59, 101, 31, 198, 76, 31, 156>>,
    <<38, 197, 123, 167, 16, 87, 178, 238, 227, 97, 148, 247, 26, 90, 228, 182, 236, 197, 47, 249,
      36, 213, 54, 113, 181, 74, 177, 204, 155, 61, 47, 42, 0, 132, 144, 251, 200, 38, 38, 138,
      54, 44, 64, 19, 22, 206, 16, 10, 228, 211, 161, 171, 44, 194, 210>>,
    <<106, 120, 107, 157, 164, 216, 112, 116, 2, 91, 248, 163, 36, 201, 202, 229, 6, 144, 254, 155,
      135, 208, 170, 209, 12, 139, 127, 142, 182, 249, 177, 174, 190, 28, 10, 85, 239, 184, 101, 124,
      152, 206, 96, 23, 163, 61, 27, 196, 247, 151, 154, 202, 207, 20, 61, 10>>,
    <<58, 140, 237, 93, 106, 61, 193, 2, 87, 73, 194, 215, 159, 163, 10, 155, 5, 121, 153, 59,
      248, 4, 117, 22, 60, 177, 144, 44, 72, 228, 62, 1, 19, 170, 113, 158, 25, 175, 199, 139,
      90, 1, 210, 7, 119, 154, 89, 159, 130, 122, 46, 147, 190, 135, 94, 68, 66>>,
    <<82, 116, 26, 247, 66, 27, 62, 107, 252, 182, 200, 185, 235, 55, 251, 242, 210, 144, 154, 237,
      176, 141, 192, 248, 152, 249, 206, 85, 253, 142, 65, 165, 125, 23, 24, 30, 122, 240, 214, 6,
      129, 218, 29, 145, 127, 134, 206, 245, 117, 29, 41, 63, 159, 142, 233, 125, 148, 123>>,
    <<57, 115, 232, 11, 195, 217, 3, 206, 77, 67, 29, 166, 180, 106, 118, 203, 17, 69, 152, 213,
      74, 44, 49, 43, 98, 61, 253, 122, 14, 43, 209, 143, 9, 104, 107, 171, 224, 57, 254, 251,
      226, 232, 221, 194, 240, 117, 161, 82, 178, 246, 178, 33, 50, 86, 215, 239, 180, 180, 181>>,
    <<107, 140, 26, 12, 9, 141, 243, 197, 226, 197, 219, 45, 211, 101, 219, 120, 28, 181, 127, 6,
      100, 247, 2, 205, 198, 57, 115, 219, 101, 109, 160, 82, 37, 38, 238, 49, 160, 209, 121, 86,
      11, 124, 30, 181, 84, 25, 194, 87, 65, 102, 190, 220, 70, 27, 209, 16, 89, 7, 33, 240>>,
    <<161, 244, 105, 115, 64, 9, 221, 236, 16, 145, 148, 34, 144, 186, 13, 20, 254, 246, 38, 35,
      202, 72, 4, 212, 159, 211, 165, 135, 252, 250, 25, 87, 30, 120, 226, 234, 92, 199, 72, 7,
      155, 218, 231, 44, 125, 178, 156, 174, 124, 43, 100, 31, 56, 101, 204, 64, 175, 225, 169, 146,
      45>>,
    <<65, 202, 113, 98, 71, 223, 248, 118, 214, 94, 0, 122, 37, 23, 2, 228, 58, 121, 7, 105,
      135, 78, 243, 118, 70, 76, 223, 89, 72, 50, 70, 111, 194, 17, 212, 126, 181, 35, 221, 117,
      235, 11, 229, 149, 147, 123, 213, 40, 115, 6, 200, 100, 26, 246, 182, 218, 127, 215, 36, 186,
      110, 106>>,
    <<30, 71, 36, 71, 19, 195, 172, 110, 61, 2, 169, 194, 90, 136, 59, 182, 231, 145, 102, 39,
      170, 231, 214, 67, 196, 207, 53, 112, 246, 90, 90, 121, 183, 146, 74, 77, 38, 89, 22, 231,
      55, 56, 242, 112, 217, 110, 123, 62, 201, 217, 128, 165, 60, 181, 37, 161, 246, 132, 246, 18,
      115, 136, 168>>,
    <<45, 51, 175, 9, 7, 158, 159, 49, 68, 119, 92, 123, 177, 204, 187, 254, 200, 78, 141, 149,
      119, 26, 127, 53, 160, 93, 199, 212, 29, 24, 145, 156, 208, 150, 218, 209, 4, 216, 91, 47,
      184, 146, 47, 140, 195, 195, 125, 242, 238, 63, 99, 108, 140, 230, 242, 31, 204, 11, 178, 243,
      217, 156, 213, 231>>,
    <<137, 158, 247, 240, 37, 238, 214, 128, 99, 218, 46, 138, 198, 128, 92, 219, 109, 139, 166, 25,
      66, 67, 14, 58, 238, 149, 177, 195, 221, 154, 171, 48, 80, 12, 59, 190, 228, 19, 55, 208,
      92, 112, 229, 37, 60, 10, 47, 81, 0, 192, 37, 171, 175, 147, 128, 73, 166, 61, 149, 12,
      24, 95, 70, 113, 40>>,
    <<5, 118, 222, 180, 136, 136, 162, 51, 46, 117, 13, 215, 81, 17, 139, 247, 197, 171, 95, 173,
      65, 137, 178, 68, 111, 95, 101, 41, 72, 214, 169, 197, 95, 7, 44, 154, 77, 111, 236, 40,
      121, 143, 63, 87, 80, 253, 240, 126, 217, 77, 34, 232, 106, 50, 168, 82, 76, 146, 67, 106,
      171, 25, 132, 93, 45, 105>>,
    <<191, 172, 113, 86, 7, 166, 246, 185, 155, 250, 98, 113, 89, 86, 214, 225, 156, 190, 58, 33,
      144, 67, 179, 163, 52, 154, 233, 151, 104, 251, 160, 126, 175, 208, 225, 70, 227, 146, 4, 152,
      139, 103, 25, 107, 61, 204, 159, 250, 193, 225, 105, 160, 98, 167, 2, 53, 16, 242, 83, 210,
      196, 103, 248, 86, 211, 41, 171>>,
    <<247, 159, 223, 33, 224, 93, 77, 70, 90, 160, 32, 254, 43, 150, 84, 101, 190, 205, 133, 52,
      60, 202, 165, 220, 203, 151, 93, 84, 15, 84, 253, 173, 160, 89, 227, 52, 199, 97, 95, 231,
      52, 177, 41, 125, 137, 241, 166, 225, 118, 2, 54, 32, 82, 215, 175, 198, 43, 238, 235, 27,
      101, 184, 127, 3, 5, 8, 163, 238>>,
    <<105, 73, 68, 1, 29, 168, 117, 14, 88, 208, 55, 46, 42, 217, 6, 84, 179, 97, 6, 240,
      192, 231, 158, 64, 118, 160, 203, 57, 61, 108, 199, 124, 65, 187, 221, 167, 39, 182, 159, 180,
      244, 203, 228, 254, 13, 175, 61, 90, 206, 40, 199, 94, 67, 57, 81, 229, 46, 123, 89, 37,
      31, 202, 66, 250, 35, 170, 243, 88, 51>>>>

DATA_BYTES_PER_BLOCK ==
  <<<<<<19, 1, 0, 0>>, <<16, 1, 0, 0>>, <<13, 1, 0, 0>>, <<9, 1, 0, 0>>>>,
    <<<<34, 1, 0, 0>>, <<28, 1, 0, 0>>, <<22, 1, 0, 0>>, <<16, 1, 0, 0>>>>,
    <<<<55, 1, 0, 0>>, <<44, 1, 0, 0>>, <<17, 2, 0, 0>>, <<13, 2, 0, 0>>>>,
    <<<<80, 1, 0, 0>>, <<32, 2, 0, 0>>, <<24, 2, 0, 0>>, <<9, 4, 0, 0>>>>,
    <<<<108, 1, 0, 0>>, <<43, 2, 0, 0>>, <<15, 2, 16, 2>>, <<11, 2, 12, 2>>>>,
    <<<<68, 2, 0, 0>>, <<27, 4, 0, 0>>, <<19, 4, 0, 0>>, <<15, 4, 0, 0>>>>,
    <<<<78, 2, 0, 0>>, <<31, 4, 0, 0>>, <<14, 2, 15, 4>>, <<13, 4, 14, 1>>>>,
    <<<<97, 2, 0, 0>>, <<38, 2, 39, 2>>, <<18, 4, 19, 2>>, <<14, 4, 15, 2>>>>,
    <<<<116, 2, 0, 0>>, <<36, 3, 37, 2>>, <<16, 4, 17, 4>>, <<12, 4, 13, 4>>>>,
    <<<<68, 2, 69, 2>>, <<43, 4, 44, 1>>, <<19, 6, 20, 2>>, <<15, 6, 16, 2>>>>,
    <<<<81, 4, 0, 0>>, <<50, 1, 51, 4>>, <<22, 4, 23, 4>>, <<12, 3, 13, 8>>>>,
    <<<<92, 2, 93, 2>>, <<36, 6, 37, 2>>, <<20, 4, 21, 6>>, <<14, 7, 15, 4>>>>,
    <<<<107, 4, 0, 0>>, <<37, 8, 38, 1>>, <<20, 8, 21, 4>>, <<11, 12, 12, 4>>>>,
    <<<<115, 3, 116, 1>>, <<40, 4, 41, 5>>, <<16, 11, 17, 5>>, <<12, 11, 13, 5>>>>,
    <<<<87, 5, 88, 1>>, <<41, 5, 42, 5>>, <<24, 5, 25, 7>>, <<12, 11, 13, 7>>>>,
    <<<<98, 5, 99, 1>>, <<45, 7, 46, 3>>, <<19, 15, 20, 2>>, <<15, 3, 16, 13>>>>,
    <<<<107, 1, 108, 5>>, <<46, 10, 47, 1>>, <<22, 1, 23, 15>>, <<14, 2, 15, 17>>>>,
    <<<<120, 5, 121, 1>>, <<43, 9, 44, 4>>, <<22, 17, 23, 1>>, <<14, 2, 15, 19>>>>,
    <<<<113, 3, 114, 4>>, <<44, 3, 45, 11>>, <<21, 17, 22, 4>>, <<13, 9, 14, 16>>>>,
    <<<<107, 3, 108, 5>>, <<41, 3, 42, 13>>, <<24, 15, 25, 5>>, <<15, 15, 16, 10>>>>,
    <<<<116, 4, 117, 4>>, <<42, 17, 0, 0>>, <<22, 17, 23, 6>>, <<16, 19, 17, 6>>>>,
    <<<<111, 2, 112, 7>>, <<46, 17, 0, 0>>, <<24, 7, 25, 16>>, <<13, 34, 0, 0>>>>,
    <<<<121, 4, 122, 5>>, <<47, 4, 48, 14>>, <<24, 11, 25, 14>>, <<15, 16, 16, 14>>>>,
    <<<<117, 6, 118, 4>>, <<45, 6, 46, 14>>, <<24, 11, 25, 16>>, <<16, 30, 17, 2>>>>,
    <<<<106, 8, 107, 4>>, <<47, 8, 48, 13>>, <<24, 7, 25, 22>>, <<15, 22, 16, 13>>>>,
    <<<<114, 10, 115, 2>>, <<46, 19, 47, 4>>, <<22, 28, 23, 6>>, <<16, 33, 17, 4>>>>,
    <<<<122, 8, 123, 4>>, <<45, 22, 46, 3>>, <<23, 8, 24, 26>>, <<15, 12, 16, 28>>>>,
    <<<<117, 3, 118, 10>>, <<45, 3, 46, 23>>, <<24, 4, 25, 31>>, <<15, 11, 16, 31>>>>,
    <<<<116, 7, 117, 7>>, <<45, 21, 46, 7>>, <<23, 1, 24, 37>>, <<15, 19, 16, 26>>>>,
    <<<<115, 5, 116, 10>>, <<47, 19, 48, 10>>, <<24, 15, 25, 25>>, <<15, 23, 16, 25>>>>,
    <<<<115, 13, 116, 3>>, <<46, 2, 47, 29>>, <<24, 42, 25, 1>>, <<15, 23, 16, 28>>>>,
    <<<<115, 17, 0, 0>>, <<46, 10, 47, 23>>, <<24, 10, 25, 35>>, <<15, 19, 16, 35>>>>,
    <<<<115, 17, 116, 1>>, <<46, 14, 47, 21>>, <<24, 29, 25, 19>>, <<15, 11, 16, 46>>>>,
    <<<<115, 13, 116, 6>>, <<46, 14, 47, 23>>, <<24, 44, 25, 7>>, <<16, 59, 17, 1>>>>,
    <<<<121, 12, 122, 7>>, <<47, 12, 48, 26>>, <<24, 39, 25, 14>>, <<15, 22, 16, 41>>>>,
    <<<<121, 6, 122, 14>>, <<47, 6, 48, 34>>, <<24, 46, 25, 10>>, <<15, 2, 16, 64>>>>,
    <<<<122, 17, 123, 4>>, <<46, 29, 47, 14>>, <<24, 49, 25, 10>>, <<15, 24, 16, 46>>>>,
    <<<<122, 4, 123, 18>>, <<46, 13, 47, 32>>, <<24, 48, 25, 14>>, <<15, 42, 16, 32>>>>,
    <<<<117, 20, 118, 4>>, <<47, 40, 48, 7>>, <<24, 43, 25, 22>>, <<15, 10, 16, 67>>>>,
    <<<<118, 19, 119, 6>>, <<47, 18, 48, 31>>, <<24, 34, 25, 34>>, <<15, 20, 16, 61>>>>>>

-----------------------------------------------------------------------------
(* ec.rs: Reed-Solomon codewords of one block.                             *)

RECURSIVE XorBits(_, _)
\* a ^ b on unsigned integers, bit by bit
XorBits(a, b) ==
  IF a = 0 THEN b
  ELSE IF b = 0 THEN a
  ELSE ((a + b) % 2) + 2 * XorBits(a \div 2, b \div 2)

\* a ^ b for the 4-bit values a and b, at position 16 * a + b + 1
XorNibbles == [i \in 1..256 |-> XorBits((i - 1) \div 16, (i - 1) % 16)] \o <<>>

\* a ^ b on u8 values: the high and the low halves separately
Xor(a, b) ==
  16 * XorNibbles[16 * (a \div 16) + (b \div 16) + 1]
  + XorNibbles[16 * (a % 16) + (b % 16) + 1]

\* Vec::resize(len, 0) on a vector that is not longer than len
Resize(v, len) == v \o [i \in 1..(len - Len(v)) |-> 0]

\* a mutation of ZipStart that starts the zip at the leading codeword
ZipStartAtLead(i) == i

\* the first codeword (0-based) of the slice codewords[i + 1..]
ZipStart(i) == i + 1

\* a mutation of ExpIndex that reduces the exponent modulo 256
ExpIndex256(gen_coeff, log_lead_coeff) == (gen_coeff + log_lead_coeff) % 256

\* the index into EXP_TABLE of one step of the division
ExpIndex(gen_coeff, log_lead_coeff) == (gen_coeff + log_lead_coeff) % 255

\* codewords[i + 1..].iter_mut().zip(generator_polynomial.iter()).for_each(..):
\* the zip stops at the shorter of the slice and the generator
ZipXor(codewords, i, log_lead_coeff, generator_polynomial) ==
  LET start == ZipStart(i)
      count == IF Len(codewords) - start < Len(generator_polynomial)
                 THEN Len(codewords) - start
                 ELSE Len(generator_polynomial)
  IN SubSeq(codewords, 1, start)
     \o [j \in 1..count |->
           Xor(codewords[start + j],
               At0(EXP_TABLE, ExpIndex(generator_polynomial[j], log_lead_coeff)))]
     \o SubSeq(codewords, start + count + 1, Len(codewords))

\* one iteration of the loop of create_ec_for_block
DivideStep(codewords, i, generator_polynomial) ==
  LET lead_coeff == At0(codewords, i) IN
  IF lead_coeff = 0
    THEN codewords
    ELSE ZipXor(codewords, i, At0(LOG_TABLE, lead_coeff), generator_polynomial)

RECURSIVE DivideRange(_, _, _, _)
\* the iterations lo, lo + 1, .., hi - 1 of the loop of create_ec_for_block,
\* in this order: the first half of them, then the second
DivideRange(codewords, lo, hi, generator_polynomial) ==
  IF lo >= hi THEN codewords
  ELSE IF hi = lo + 1 THEN DivideStep(codewords, lo, generator_polynomial)
  ELSE LET mid == (lo + hi) \div 2
           first == DivideRange(codewords, lo, mid, generator_polynomial)
       IN \* the test makes the first half run before the second starts
          IF Len(first) = Len(codewords)
            THEN DivideRange(first, mid, hi, generator_polynomial)
            ELSE first

\* create_ec_for_block(block, ec_size, generator_polynomial)
create_ec_for_block(block, ec_size, generator_polynomial) ==
  LET data_len == Len(block)
      codewords == DivideRange(Resize(block, data_len + ec_size), 0, data_len,
                               generator_polynomial)
  IN SubSeq(codewords, data_len + 1, Len(codewords))

-----------------------------------------------------------------------------
(* ec.rs: interleaving and the pipeline.                                   *)

\* blocks.iter().map(|block| block.len()).max() of at least one block
MaxBlockLength(blocks) ==
  CHOOSE m \in {Len(blocks[b]) : b \in 1..Len(blocks)} :
    \A b \in 1..Len(blocks) : Len(blocks[b]) <= m

RECURSIVE ColumnRange(_, _, _, _)
\* the inner loop of interleave over the blocks lo, .., hi - 1 (0-based) in
\* this order: codeword i of each block that has one
ColumnRange(blocks, i, lo, hi) ==
  IF lo >= hi THEN <<>>
  ELSE IF hi = lo + 1
    THEN (IF i < Len(At0(blocks, lo)) THEN <<At0(At0(blocks, lo), i)>> ELSE <<>>)
  ELSE LET mid == (lo + hi) \div 2 IN
       ColumnRange(blocks, i, lo, mid) \o ColumnRange(blocks, i, mid, hi)

RECURSIVE ColumnsRange(_, _, _)
\* the outer loop of interleave over the columns lo, .., hi - 1 in this order
ColumnsRange(blocks, lo, hi) ==
  IF lo >= hi THEN <<>>
  ELSE IF hi = lo + 1 THEN ColumnRange(blocks, lo, 0, Len(blocks))
  ELSE LET mid == (lo + hi) \div 2 IN
       ColumnsRange(blocks, lo, mid) \o ColumnsRange(blocks, mid, hi)

RECURSIVE ConcatRange(_, _, _)
\* the blocks lo, .., hi - 1 (0-based) one after the other
ConcatRange(blocks, lo, hi) ==
  IF lo >= hi THEN <<>>
  ELSE IF hi = lo + 1 THEN At0(blocks, lo)
  ELSE LET mid == (lo + hi) \div 2 IN
       ConcatRange(blocks, lo, mid) \o ConcatRange(blocks, mid, hi)

\* a mutation of interleave with the two loops exchanged
interleave_by_block(blocks) ==
  IF Len(blocks) = 0 THEN Panicked ELSE Ok(ConcatRange(blocks, 0, Len(blocks)))

\* interleave(blocks); max() of no block is None and the unwrap panics
interleave(blocks) ==
  IF Len(blocks) = 0
    THEN Panicked
    ELSE Ok(ColumnsRange(blocks, 0, MaxBlockLength(blocks)))

\* slice.chunks(n) for n > 0: chunks of n elements, the last one shorter when
\* n does not divide the length
Chunks(s, n) ==
  [c \in 1..((Len(s) + n - 1) \div n) |->
     SubSeq(s, (c - 1) * n + 1, IF c * n < Len(s) THEN c * n ELSE Len(s))] \o <<>>

\* the blocks vector that error_correction builds (ec.rs lines 25-44);
\* chunks(0) panics
split_blocks(d, block_1_size, block_1_count, block_2_size, block_2_count) ==
  LET group_1_size == block_1_count * block_1_size IN
  IF block_1_size = 0 THEN Panicked
  ELSE IF group_1_size < Len(d)
    THEN LET group_1 == SubSeq(d, 1, group_1_size)
             group_2 == SubSeq(d, group_1_size + 1, Len(d))
         IN Ok(Chunks(group_1, block_1_size)
               \o (IF block_2_size > 0
                     THEN Chunks(group_2, block_2_size)
                     ELSE <<>>))
    ELSE Ok(Chunks(d, block_1_size))

\* the row of EC_BYTES_PER_BLOCK that error_correction reads
EcRow(v) == v

\* the closure of ec.rs lines 48-52 applied to every block; the table lookups
\* panic out of range, and the closure does not run when there is no block
ec_blocks_of(blocks, v, lvl) ==
  IF Len(blocks) = 0 THEN Ok(<<>>)
  ELSE IF EcRow(v) \notin 0..(Len(EC_BYTES_PER_BLOCK) - 1) THEN Panicked
  ELSE LET ec_size == At0(At0(EC_BYTES_PER_BLOCK, EcRow(v)), lvl) IN
       IF ec_size \notin 0..(Len(GENERATOR_POLYNOMIALS) - 1) THEN Panicked
       ELSE Ok([b \in 1..Len(blocks) |->
                  create_ec_for_block(blocks[b], ec_size,
                                      At0(GENERATOR_POLYNOMIALS, ec_size))])

\* error_correction(data, version, ec_level); version - 1 overflows for
\* version 0 (a panic, or 255 and then a lookup out of range)
error_correction(d, v, level) ==
  LET lvl == ordinal(level) IN
  IF (v - 1) \notin 0..(Len(DATA_BYTES_PER_BLOCK) - 1) THEN Panicked
  ELSE LET row == At0(At0(DATA_BYTES_PER_BLOCK, v - 1), lvl)
           blocks == split_blocks(d, row[1], row[2], row[3], row[4])
       IN IF blocks.panic THEN Panicked
          ELSE LET ec_blocks == ec_blocks_of(blocks.val, v, lvl) IN
               IF ec_blocks.panic THEN Panicked
               ELSE interleave(ec_blocks.val)

-----------------------------------------------------------------------------
(* qrcode.rs: the matrix substrate.                                        *)

\* a mutation of size_from_version that counts versions from 0
size_from_version_off(v) == 17 + 4 * (v - 1)

size_from_version(v) == 17 + 4 * v

\* QrCode::size of the matrix held in the variables
size == size_from_version(version)

\* a mutation of coords_to_index that lets x = size through
coords_to_index_le(x, y, sz) ==
  IF ~(x <= sz /\ y < sz) THEN None ELSE Some(x + sz * y)

coords_to_index(x, y, sz) ==
  IF ~(x < sz /\ y < sz) THEN None ELSE Some(x + sz * y)

coords_to_index_from_instance(v, x, y) ==
  coords_to_index(x, y, size_from_version(v))

\* Vec::get: None past the end of the vector
get(d, v, x, y) ==
  LET index == coords_to_index_from_instance(v, x, y) IN
  IF index # None
    THEN (IF index[1] \in DOMAIN d THEN Some(d[index[1]]) ELSE None)
    ELSE None

\* the vector after put; the indexing d[index] panics past the end
put(d, v, x, y, bit) ==
  LET index == coords_to_index_from_instance(v, x, y) IN
  IF index # None
    THEN (IF index[1] \in DOMAIN d
            THEN Ok([d EXCEPT ![index[1]] = bit])
            ELSE Panicked)
    ELSE Ok(d)

\* the coordinates the exploration passes to get and put on a matrix of
\* size sz: the corners, the first coordinates past the edge and the
\* coordinate 100 of tests::get_returns_none_for_out_of_bounds
CoordSamples(sz) == {0, sz - 1, sz, 100}

\* the versions of the matrices the exploration calls get and put on
OpVersions == {1, 2, 7}

\* the mask arguments the exploration passes to QrCode::new
MaskSamples == {0, 7, 8, 255}

\* no call of fill is under way
FillIdle == walk = [pc |-> "none"]

QrInit ==
  /\ result = "pending"
  /\ error = ""
  /\ data = <<>>
  /\ version \in U8
  /\ ec_level \in EcLevels
  /\ mask_pattern \in MaskSamples
  /\ ret = <<"none">>
  /\ nops = 0
  /\ FillIdle

EcIdle ==
  /\ ec_call = [fn |-> "none"]
  /\ ec_ret = [status |-> "none", val |-> <<>>]

\* vec![Bit::Zero(false); (size * size) as usize]
NewData(v) ==
  LET sz == size_from_version(v) IN [i \in 0..(sz * sz - 1) |-> Zero(FALSE)]

\* a mutation of InvalidVersion that forgets version 0
InvalidVersionNoZero(v) == v > 40

\* the version check of QrCode::new
InvalidVersion(v) == v > 40 \/ v = 0

\* QrCode::new(version, ec_level, mask_pattern, encoding)
New ==
  /\ result = "pending"
  /\ IF InvalidVersion(version)
       THEN /\ result' = "Err"
            /\ error' = "Invalid version."
            /\ data' = data
       ELSE /\ result' = "Ok"
            /\ error' = error
            /\ data' = NewData(version)
  /\ UNCHANGED <<version, ec_level, mask_pattern, ret, nops, ec_call, ec_ret, walk>>

\* QrCode::get(x, y)
Get(x, y) ==
  /\ result = "Ok"
  /\ nops < MaxOps
  /\ ret' = <<"get", x, y, get(data, version, x, y)>>
  /\ nops' = nops + 1
  /\ UNCHANGED <<result, error, data, version, ec_level, mask_pattern, ec_call, ec_ret, walk>>

\* QrCode::put(x, y, bit)
Put(x, y, bit) ==
  /\ result = "Ok"
  /\ nops < MaxOps
  /\ LET r == put(data, version, x, y, bit) IN
     IF r.panic
       THEN /\ ret' = <<"panic">>
            /\ data' = data
       ELSE /\ ret' = <<"put", x, y, bit>>
            /\ data' = r.val
  /\ nops' = nops + 1
  /\ UNCHANGED <<result, error, version, ec_level, mask_pattern, ec_call, ec_ret, walk>>

GetStep == \E x \in CoordSamples(size), y \in CoordSamples(size) : Get(x, y)
PutStep == \E x \in CoordSamples(size), y \in CoordSamples(size), bit \in Bits : Put(x, y, bit)

\* construction: every call QrCode::new(version, ec_level, mask_pattern, _)
Init == QrInit /\ EcIdle
Next == New
Spec == Init /\ [][Next]_vars

\* the matrix substrate: get and put on a matrix that QrCode::new returned
\* (the arguments are those of the tests of qrcode.rs: EcLevel::L, mask 1)
MatrixInit ==
  /\ result = "Ok"
  /\ error = ""
  /\ version \in OpVersions
  /\ data = NewData(version)
  /\ ec_level = "L"
  /\ mask_pattern = 1
  /\ ret = <<"none">>
  /\ nops = 0
  /\ EcIdle
  /\ FillIdle
MatrixNext == GetStep \/ PutStep
SpecMatrix == MatrixInit /\ [][MatrixNext]_vars

-----------------------------------------------------------------------------
(* The calls of ec.rs.  No QrCode exists while they run.                   *)

QrIdle ==
  /\ result = "pending"
  /\ error = ""
  /\ data = <<>>
  /\ version = 0
  /\ ec_level = "L"
  /\ mask_pattern = 0
  /\ ret = <<"none">>
  /\ nops = 0
  /\ FillIdle

Pending == [status |-> "pending", val |-> <<>>]
Returned(v) == [status |-> "returned", val |-> v]
Outcome(r) == IF r.panic THEN [status |-> "panicked", val |-> <<>>] ELSE Returned(r.val)

\* every sequence of at most n elements of S
SeqsUpTo(S, n) == UNION {[1..m -> S] : m \in 0..n}

\* the codewords of the sampled blocks: zero (a division step that is
\* skipped), alpha^0, alpha^1 and the largest codeword
ByteSamples == {0, 1, 2, 255}

\* the blocks of ec_tests::create_ec_for_block_works_simple and _complex
TestBlocks ==
  {<<1, 2, 3>>,
   <<32, 91, 11, 120, 209, 114, 220, 77, 67, 64, 236, 17, 236>>}

\* every ec_size that GENERATOR_POLYNOMIALS has a row for
EcSizes == 0..(Len(GENERATOR_POLYNOMIALS) - 1)

RsInit ==
  /\ QrIdle
  /\ \E block \in SeqsUpTo(ByteSamples, MaxBlockLen) \cup TestBlocks,
        ec_size \in EcSizes :
       ec_call = [fn |-> "create_ec_for_block", block |-> block,
                  ec_size |-> ec_size]
  /\ ec_ret = Pending

\* create_ec_for_block(block, ec_size, GENERATOR_POLYNOMIALS[ec_size])
CreateEcForBlock ==
  /\ ec_call.fn = "create_ec_for_block"
  /\ ec_ret.status = "pending"
  /\ ec_ret' = Returned(create_ec_for_block(
                          ec_call.block, ec_call.ec_size,
                          At0(GENERATOR_POLYNOMIALS, ec_call.ec_size)))
  /\ UNCHANGED <<qrVars, ec_call>>

RsNext == CreateEcForBlock
SpecRs == RsInit /\ [][RsNext]_vars

\* the block lists of interleave_tests
TestBlockLists ==
  {<<<<1, 2, 3>>, <<4, 5, 6>>, <<7, 8, 9>>>>,
   <<<<1, 2>>, <<3, 4, 5>>, <<6>>>>,
   <<<<>>, <<>>, <<>>>>,
   <<<<1, 2, 3>>>>}

\* the codewords of the sampled blocks of interleave
InterleaveBytes == {1, 2}

InterleaveInit ==
  /\ QrIdle
  /\ \E blocks \in SeqsUpTo(SeqsUpTo(InterleaveBytes, MaxBlockLen), MaxBlocks)
                   \cup TestBlockLists :
       ec_call = [fn |-> "interleave", blocks |-> blocks]
  /\ ec_ret = Pending

\* interleave(blocks)
Interleave ==
  /\ ec_call.fn = "interleave"
  /\ ec_ret.status = "pending"
  /\ ec_ret' = Outcome(interleave(ec_call.blocks))
  /\ UNCHANGED <<qrVars, ec_call>>

InterleaveNext == Interleave
SpecInterleave == InterleaveInit /\ [][InterleaveNext]_vars

\* the number of data codewords of (version, EC level): the sum over the two
\* groups of block size times block count
Prescribed(v, level) ==
  LET row == At0(At0(DATA_BYTES_PER_BLOCK, v - 1), ordinal(level)) IN
  row[1] * row[2] + row[3] * row[4]

\* the first codewords of the sampled data codeword streams
DataSeeds == {0}

\* a stream of n data codewords: an arithmetic progression from seed
DataStream(seed, n) == [i \in 1..n |-> (seed + 13 * (i - 1)) % 256] \o <<>>

\* the lengths of the sampled streams: the prescribed one and its neighbours
DataLengths(v, level) ==
  {Prescribed(v, level) - 1, Prescribed(v, level), Prescribed(v, level) + 1}

PipelineInit ==
  /\ QrIdle
  /\ \E v \in 1..40, level \in EcLevels, seed \in DataSeeds :
       \E n \in DataLengths(v, level) :
         ec_call = [fn |-> "error_correction", data |-> DataStream(seed, n),
                    version |-> v, ec_level |-> level]
  /\ ec_ret = Pending

\* error_correction(data, version, ec_level)
ErrorCorrection ==
  /\ ec_call.fn = "error_correction"
  /\ ec_ret.status = "pending"
  /\ ec_ret' = Outcome(error_correction(ec_call.data, ec_call.version,
                                        ec_call.ec_level))
  /\ UNCHANGED <<qrVars, ec_call>>

PipelineNext == ErrorCorrection
SpecPipeline == PipelineInit /\ [][PipelineNext]_vars

-----------------------------------------------------------------------------
(* Claims about create_ec_for_block.                                       *)

\* step 2 of the long division for one i: XOR EXP[(G[j] + lead_log) mod 255]
\* into C[i + 1 + j] for every j < k
LongDivisionInner(C, i, k, lead_log) ==
  [p \in 1..Len(C) |->
     LET j == (p - 1) - (i + 1) IN
     IF j >= 0 /\ j < k
       THEN XorBits(C[p],
                    At0(EXP_TABLE,
                        (At0(At0(GENERATOR_POLYNOMIALS, k), j) + lead_log) % 255))
       ELSE C[p]] \o <<>>

RECURSIVE LongDivisionOuter(_, _, _, _)
\* step 2 of the long division for i = i, .., n - 1
LongDivisionOuter(C, i, n, k) ==
  IF i >= n THEN C
  ELSE IF At0(C, i) = 0 THEN LongDivisionOuter(C, i + 1, n, k)
  ELSE LongDivisionOuter(
         LongDivisionInner(C, i, k, At0(LOG_TABLE, At0(C, i))),
         i + 1, n, k)

\* C[n..n+k) of the long division of B zero-padded to n + k
LongDivisionTail(B, k) ==
  LET n == Len(B)
      C == LongDivisionOuter(B \o [j \in 1..k |-> 0], 0, n, k)
  IN [j \in 1..k |-> C[n + j]] \o <<>>

\* C4: for every data block B of length n and every ec_size k,
\* create_ec_for_block with the generator GENERATOR_POLYNOMIALS[k] returns
\* exactly k codewords, equal to C[n..n+k) of the long division; [1, 2, 3]
\* with k = 3 gives [92, 236, 176].
C4_EcIsLongDivisionTail ==
  ec_call.fn = "create_ec_for_block" /\ ec_ret.status # "pending" =>
    /\ ec_ret.status = "returned"
    /\ Len(ec_ret.val) = ec_call.ec_size
    /\ ec_ret.val = LongDivisionTail(ec_call.block, ec_call.ec_size)
    /\ (ec_call.block = <<1, 2, 3>> /\ ec_call.ec_size = 3 =>
          ec_ret.val = <<92, 236, 176>>)

\* the EC codewords of ec_tests::create_ec_for_block_works_complex are back
C4_Witness ==
  /\ ec_call.fn = "create_ec_for_block"
  /\ Len(ec_call.block) = 13
  /\ ec_call.ec_size = 13
  /\ ec_ret.status = "returned"
  /\ ec_ret.val = <<168, 72, 22, 82, 217, 54, 156, 0, 46, 15, 180, 122, 16>>

\* multiplication by alpha = 2 in GF(256) modulo x^8 + x^4 + x^3 + x^2 + 1
GfTimesAlpha(a) ==
  IF 2 * a >= 256 THEN XorBits(2 * a - 256, 29) ELSE 2 * a

RECURSIVE GfMul(_, _)
\* the product of a and b in GF(256): shift and add
GfMul(a, b) ==
  IF b = 0 THEN 0
  ELSE XorBits(IF b % 2 = 1 THEN a ELSE 0, GfMul(GfTimesAlpha(a), b \div 2))

RECURSIVE AlphaPow(_)
\* alpha^e, by squaring
AlphaPow(e) ==
  IF e = 0 THEN 1
  ELSE IF e % 2 = 1 THEN GfTimesAlpha(AlphaPow(e - 1))
  ELSE LET h == AlphaPow(e \div 2) IN GfMul(h, h)

RECURSIVE GfRemainderFrom(_, _, _)
\* the remainder of the polynomial W (highest coefficient first) divided by
\* the monic polynomial x^k + g[1] x^(k-1) + .. + g[k], from coefficient i on
GfRemainderFrom(W, g, i) ==
  IF i > Len(W) - Len(g) THEN SubSeq(W, Len(W) - Len(g) + 1, Len(W))
  ELSE GfRemainderFrom(
         [p \in 1..Len(W) |->
            IF p > i /\ p <= i + Len(g)
              THEN XorBits(W[p], GfMul(W[i], g[p - i]))
              ELSE W[p]] \o <<>>,
         g, i + 1)

\* the non-leading coefficients alpha^G[j] of the generator of k EC codewords
GeneratorCoefficients(k) ==
  [j \in 1..k |-> AlphaPow(At0(GENERATOR_POLYNOMIALS, k)[j])] \o <<>>

\* C5: the data block followed by the EC codewords that create_ec_for_block
\* returns for it, read as a polynomial over GF(256), leaves remainder zero
\* when divided by the monic generator polynomial with the non-leading
\* coefficients alpha^G[j].
C5_CodewordDivisibleByGenerator ==
  ec_call.fn = "create_ec_for_block" /\ ec_ret.status = "returned" =>
    LET k == ec_call.ec_size
        remainder == GfRemainderFrom(ec_call.block \o ec_ret.val,
                                     GeneratorCoefficients(k), 1)
    IN /\ Len(remainder) = k
       /\ \A j \in 1..k : remainder[j] = 0

\* EC codewords that are not all zero are back for a block of the largest
\* sampled length and the largest ec_size of EC_BYTES_PER_BLOCK
C5_Witness ==
  /\ ec_call.fn = "create_ec_for_block"
  /\ ec_ret.status = "returned"
  /\ ec_call.ec_size = 30
  /\ Len(ec_call.block) = MaxBlockLen
  /\ \E j \in 1..30 : ec_ret.val[j] # 0

-----------------------------------------------------------------------------
(* Claims about interleave.                                                *)

\* the (column, block) pairs of the codewords of the blocks
Cells(blocks) ==
  UNION {{<<c, b>> : c \in 0..(Len(blocks[b]) - 1)} : b \in 1..Len(blocks)}

\* the number of cells emitted before cell: those of an earlier column, and
\* those of the same column in an earlier block
CellsBefore(blocks, cell) ==
  Cardinality({o \in Cells(blocks) :
                 o[1] < cell[1] \/ (o[1] = cell[1] /\ o[2] < cell[2])})

RECURSIVE SumOfLengths(_, _)
SumOfLengths(blocks, b) ==
  IF b > Len(blocks) THEN 0 ELSE Len(blocks[b]) + SumOfLengths(blocks, b + 1)

\* C6: for a non-empty list of blocks interleave emits, column by column, the
\* codeword blocks[b][c] of every block b in list order that has c < len(b);
\* the output is as long as the blocks together, a single block is returned
\* unchanged, and blocks that are all empty give an empty output.
C6_InterleaveByColumn ==
  (/\ ec_call.fn = "interleave"
   /\ ec_ret.status # "pending"
   /\ Len(ec_call.blocks) > 0) =>
    LET blocks == ec_call.blocks
        out == ec_ret.val
    IN /\ ec_ret.status = "returned"
       /\ Len(out) = SumOfLengths(blocks, 1)
       /\ Len(out) = Cardinality(Cells(blocks))
       /\ \A cell \in Cells(blocks) :
            out[CellsBefore(blocks, cell) + 1] = At0(blocks[cell[2]], cell[1])
       /\ (Len(blocks) = 1 => out = blocks[1])
       /\ ((\A b \in 1..Len(blocks) : Len(blocks[b]) = 0) => out = <<>>)

\* interleave([[1, 2], [3, 4, 5], [6]]) has returned [1, 3, 6, 2, 4, 5]
C6_Witness ==
  /\ ec_call.fn = "interleave"
  /\ ec_call.blocks = <<<<1, 2>>, <<3, 4, 5>>, <<6>>>>
  /\ ec_ret.status = "returned"
  /\ ec_ret.val = <<1, 3, 6, 2, 4, 5>>

-----------------------------------------------------------------------------
(* Claims about error_correction.                                          *)

\* the call under way is error_correction on data of the prescribed length,
\* and it is over
PrescribedCallDone ==
  /\ ec_call.fn = "error_correction"
  /\ ec_ret.status # "pending"
  /\ Len(ec_call.data) = Prescribed(ec_call.version, ec_call.ec_level)

\* the blocks of step 2 of the EC pipeline: n1 blocks of s1 consecutive
\* codewords, then n2 blocks of s2
PipelineBlocks(d, v, level) ==
  LET row == At0(At0(DATA_BYTES_PER_BLOCK, v - 1), ordinal(level)) IN
  [b \in 1..(row[2] + row[4]) |->
     IF b <= row[2]
       THEN SubSeq(d, (b - 1) * row[1] + 1, b * row[1])
       ELSE SubSeq(d, row[1] * row[2] + (b - row[2] - 1) * row[3] + 1,
                   row[1] * row[2] + (b - row[2]) * row[3])] \o <<>>

\* the EC codewords per block of (version, EC level)
PipelineEcSize(v, level) == At0(At0(EC_BYTES_PER_BLOCK, v - 1), ordinal(level))

\* C7: for data codewords of the prescribed length, error_correction returns
\* the column-wise interleaving of the data blocks followed by that of the EC
\* blocks: the number of data codewords plus ec_size times the number of
\* blocks codewords in all.
C7_DataThenEc ==
  PrescribedCallDone =>
    LET d == ec_call.data
        v == ec_call.version
        level == ec_call.ec_level
        blocks == PipelineBlocks(d, v, level)
    IN /\ ec_ret.status = "returned"
       /\ Len(ec_ret.val) = Len(d) + PipelineEcSize(v, level) * Len(blocks)
       /\ SubSeq(ec_ret.val, 1, Len(d)) = interleave(blocks).val

\* C8: for every version in 1..40, every EC level and every data codeword
\* sequence of the prescribed length, error_correction completes and returns
\* a codeword stream: no lookup is out of range, no unwrap or slice fails.
C8_PipelineNeverPanics ==
  PrescribedCallDone /\ ec_call.version \in 1..40 => ec_ret.status = "returned"

\* C9: when the number of data codewords differs from the total of
\* (version, EC level), a PayloadLengthMismatch error is reported and no EC
\* stream is produced.
C9_LengthMismatchReported ==
  (/\ ec_call.fn = "error_correction"
   /\ ec_ret.status # "pending"
   /\ Len(ec_call.data) # Prescribed(ec_call.version, ec_call.ec_level)) =>
    ec_ret.status = "PayloadLengthMismatch"

-----------------------------------------------------------------------------
(* Claims about QrCode::new, get and put.                                  *)

\* C1: QrCode::new returns Err("Invalid version.") and builds no matrix for
\* every version outside 1..40 (0 and 41..255), and returns Ok for every
\* version in 1..40.
C1_NewChecksVersion ==
  result # "pending" =>
    IF version \in 1..40
      THEN result = "Ok" /\ error = ""
      ELSE result = "Err" /\ error = "Invalid version." /\ data = <<>>

\* QrCode::new(-1i8 as u8, ..) has returned the error
C1_Witness == result = "Err" /\ version = 255 /\ error = "Invalid version."

\* (x, y) lies outside a matrix of size sz
OutOfBounds(x, y, sz) == x >= sz \/ y >= sz

\* C2: for every (x, y) with x >= S or y >= S, get returns None and put
\* leaves every module unchanged, and neither panics; for (x, y) inside the
\* matrix, put changes only the module at index x + S*y, and a following
\* get(x, y) returns the module just written.
C2_GetPutFrame ==
  [][nops' = nops + 1 =>
       LET r == ret'
           S == 17 + 4 * version
       IN
       /\ r[1] # "panic"
       /\ r[1] = "get" /\ OutOfBounds(r[2], r[3], S) => r[4] = None
       /\ r[1] = "put" /\ OutOfBounds(r[2], r[3], S) => data' = data
       /\ r[1] = "put" /\ ~OutOfBounds(r[2], r[3], S) =>
            /\ DOMAIN data' = DOMAIN data
            /\ \A i \in DOMAIN data : i # r[2] + S * r[3] => data'[i] = data[i]
            /\ data'[r[2] + S * r[3]] = r[4]
            /\ get(data', version', r[2], r[3]) = Some(r[4])
       /\ (/\ r[1] = "get" /\ ret[1] = "put"
           /\ r[2] = ret[2] /\ r[3] = ret[3]
           /\ ~OutOfBounds(r[2], r[3], S)) => r[4] = Some(ret[4])
  ]_vars

\* a get has returned a module that the put before it wrote
C2_Witness ==
  /\ nops = 2
  /\ ret[1] = "get"
  /\ ret[4] = Some(One(TRUE))

\* C3: for every version V in 1..40 a newly constructed QrCode has
\* size() = 17 + 4*V and holds exactly S*S modules, each one with value 0
\* and functional = false.
C3_NewMatrixIsBlank ==
  result = "Ok" /\ nops = 0 =>
    /\ version \in 1..40
    /\ size = 17 + 4 * version
    /\ Cardinality(DOMAIN data) = size * size
    /\ data \in [0..((17 + 4 * version) * (17 + 4 * version) - 1) ->
                   {[value |-> 0, functional |-> FALSE]}]

\* QrCode::new(1, ..) has returned a matrix of 21 * 21 blank modules
C3_Witness ==
  /\ result = "Ok"
  /\ version = 1
  /\ size = 21
  /\ DOMAIN data = 0..440
  /\ data[440] = Zero(FALSE)

\* C10: a mask index outside 0..7 is rejected by QrCode::new, so that no
\* QrCode whose mask_pattern exceeds 7 exists.
C10_NewRejectsMask == result = "Ok" => mask_pattern \in 0..7

-----------------------------------------------------------------------------
(* The functional patterns of qrcode.rs.  A painter is an operator from    *)
(* the vector d of a matrix of version v to the vector it leaves.  The     *)
(* matrix is one that QrCode::new made: every get of a painter is inside   *)
(* the matrix and its unwrap does not panic.                               *)

\* the statement self.put(x, y, bit) of a painter or of fill
Paint(d, v, x, y, bit) == put(d, v, x, y, bit).val

\* the puts ws[lo + 1], ..., ws[hi], each <<x, y, bit>>, made in this order
RECURSIVE PutRange(_, _, _, _, _)
PutRange(d, v, ws, lo, hi) ==
  IF lo >= hi THEN d
  ELSE IF hi = lo + 1 THEN Paint(d, v, ws[hi][1], ws[hi][2], ws[hi][3])
  ELSE LET mid == (lo + hi) \div 2
           first == PutRange(d, v, ws, lo, mid)
       IN \* the test makes the first half run before the second starts
          IF first[0].functional \in BOOLEAN
            THEN PutRange(first, v, ws, mid, hi)
            ELSE first

FINDER_PATTERN ==
  <<One(TRUE), One(TRUE), One(TRUE), One(TRUE), One(TRUE), One(TRUE), One(TRUE),
    One(TRUE), Zero(TRUE), Zero(TRUE), Zero(TRUE), Zero(TRUE), Zero(TRUE), One(TRUE),
    One(TRUE), Zero(TRUE), One(TRUE), One(TRUE), One(TRUE), Zero(TRUE), One(TRUE),
    One(TRUE), Zero(TRUE), One(TRUE), One(TRUE), One(TRUE), Zero(TRUE), One(TRUE),
    One(TRUE), Zero(TRUE), One(TRUE), One(TRUE), One(TRUE), Zero(TRUE), One(TRUE),
    One(TRUE), Zero(TRUE), Zero(TRUE), Zero(TRUE), Zero(TRUE), Zero(TRUE), One(TRUE),
    One(TRUE), One(TRUE), One(TRUE), One(TRUE), One(TRUE), One(TRUE), One(TRUE)>>

\* PATTERN_LENGTH of finder_patterns
FINDER_LENGTH == 7

\* a mutation of the corners that leaves the matrix at the bottom left
corners_off(sz) == <<<<0, 0>>, <<sz - 7, 0>>, <<0, sz - 6>>>>

\* the corners of finder_patterns on a matrix of size sz
corners(sz) == <<<<0, 0>>, <<sz - 7, 0>>, <<0, sz - 7>>>>

\* the puts of finder_patterns: for corner, for dx, for dy
FinderPuts(sz) ==
  [k \in 1..(3 * FINDER_LENGTH * FINDER_LENGTH) |->
     LET corner == corners(sz)[(k - 1) \div (FINDER_LENGTH * FINDER_LENGTH) + 1]
         dx == ((k - 1) % (FINDER_LENGTH * FINDER_LENGTH)) \div FINDER_LENGTH
         dy == (k - 1) % FINDER_LENGTH
     IN <<corner[1] + dx, corner[2] + dy,
          At0(FINDER_PATTERN, dx + FINDER_LENGTH * dy)>>] \o <<>>

finder_patterns(d, v) ==
  PutRange(d, v, FinderPuts(size_from_version(v)), 0,
           3 * FINDER_LENGTH * FINDER_LENGTH)

\* the puts of separators_patterns: the three columns top, then the three
\* rows right
SeparatorPuts(sz) ==
  LET top == <<<<7, 0>>, <<sz - 8, 0>>, <<7, sz - 8>>>>
      right == <<<<0, 7>>, <<sz - 7, 7>>, <<0, sz - 8>>>>
  IN [k \in 1..24 |->
        <<top[(k - 1) \div 8 + 1][1],
          top[(k - 1) \div 8 + 1][2] + ((k - 1) % 8), Zero(TRUE)>>]
     \o
     [k \in 1..21 |->
        <<right[(k - 1) \div 7 + 1][1] + ((k - 1) % 7),
          right[(k - 1) \div 7 + 1][2], Zero(TRUE)>>]

separators_patterns(d, v) ==
  PutRange(d, v, SeparatorPuts(size_from_version(v)), 0, 45)

\* combination(array): the pairs (elem1, elem2), elem1 in the outer loop
combination(array) ==
  [k \in 1..(Len(array) * Len(array)) |->
     <<array[(k - 1) \div Len(array) + 1],
       array[((k - 1) % Len(array)) + 1]>>] \o <<>>

ALIGNMENT_PATTERN ==
  <<One(TRUE), One(TRUE), One(TRUE), One(TRUE), One(TRUE),
    One(TRUE), Zero(TRUE), Zero(TRUE), Zero(TRUE), One(TRUE),
    One(TRUE), Zero(TRUE), One(TRUE), Zero(TRUE), One(TRUE),
    One(TRUE), Zero(TRUE), Zero(TRUE), Zero(TRUE), One(TRUE),
    One(TRUE), One(TRUE), One(TRUE), One(TRUE), One(TRUE)>>

\* PATTERN_LENGTH of draw_alignment_pattern
ALIGNMENT_LENGTH == 5

\* the puts of draw_alignment_pattern(x, y): for dx, for dy
AlignmentPuts(x, y) ==
  [k \in 1..(ALIGNMENT_LENGTH * ALIGNMENT_LENGTH) |->
     LET dx == (k - 1) \div ALIGNMENT_LENGTH
         dy == (k - 1) % ALIGNMENT_LENGTH
     IN <<(x - 2) + dx, (y - 2) + dy,
          At0(ALIGNMENT_PATTERN, dx + ALIGNMENT_LENGTH * dy)>>] \o <<>>

\* a mutation of draw_alignment_pattern that does not test the centre
draw_alignment_pattern_always(d, v, x, y) ==
  PutRange(d, v, AlignmentPuts(x, y), 0, ALIGNMENT_LENGTH * ALIGNMENT_LENGTH)

draw_alignment_pattern(d, v, x, y) ==
  IF ~ get(d, v, x, y)[1].functional
    THEN PutRange(d, v, AlignmentPuts(x, y), 0,
                  ALIGNMENT_LENGTH * ALIGNMENT_LENGTH)
    ELSE d

COORDS ==
  <<<<6, 18>>,
    <<6, 22>>,
    <<6, 26>>,
    <<6, 30>>,
    <<6, 34>>,
    <<6, 22, 38>>,
    <<6, 24, 42>>,
    <<6, 26, 46>>,
    <<6, 28, 50>>,
    <<6, 30, 54>>,
    <<6, 32, 58>>,
    <<6, 34, 62>>,
    <<6, 26, 46, 66>>,
    <<6, 26, 48, 70>>,
    <<6, 26, 50, 74>>,
    <<6, 30, 54, 78>>,
    <<6, 30, 56, 82>>,
    <<6, 30, 58, 86>>,
    <<6, 34, 62, 90>>,
    <<6, 28, 50, 72, 94>>,
    <<6, 26, 50, 74, 98>>,
    <<6, 30, 54, 78, 102>>,
    <<6, 28, 54, 80, 106>>,
    <<6, 32, 58, 84, 110>>,
    <<6, 30, 58, 86, 114>>,
    <<6, 34, 62, 90, 118>>,
    <<6, 26, 50, 74, 98, 122>>,
    <<6, 30, 54, 78, 102, 126>>,
    <<6, 26, 52, 78, 104, 130>>,
    <<6, 30, 56, 82, 108, 134>>,
    <<6, 34, 60, 86, 112, 138>>,
    <<6, 30, 58, 86, 114, 142>>,
    <<6, 34, 62, 90, 118, 146>>,
    <<6, 30, 54, 78, 102, 126, 150>>,
    <<6, 24, 50, 76, 102, 128, 154>>,
    <<6, 28, 54, 80, 106, 132, 158>>,
    <<6, 32, 58, 84, 110, 136, 162>>,
    <<6, 26, 54, 82, 110, 138, 166>>,
    <<6, 30, 58, 86, 114, 142, 170>>>>

\* the loop of alignment_patterns over combinations[lo + 1 .. hi]
RECURSIVE DrawRange(_, _, _, _, _)
DrawRange(d, v, combinations, lo, hi) ==
  IF lo >= hi THEN d
  ELSE IF hi = lo + 1
    THEN draw_alignment_pattern(d, v, combinations[hi][1], combinations[hi][2])
  ELSE LET mid == (lo + hi) \div 2
           first == DrawRange(d, v, combinations, lo, mid)
       IN IF first[0].functional \in BOOLEAN
            THEN DrawRange(first, v, combinations, mid, hi)
            ELSE first

alignment_patterns(d, v) ==
  IF v = 1
    THEN draw_alignment_pattern(d, v, 18, 18)
    ELSE LET combinations == combination(At0(COORDS, v - 2))
         IN DrawRange(d, v, combinations, 0, Len(combinations))

\* a mutation of TimingPut that paints the odd coordinates dark
TimingPutOdd(d, v, row, t) ==
  LET x == IF row THEN t ELSE 6
      y == IF row THEN 6 ELSE t
  IN IF get(d, v, x, y)[1].functional
       THEN d
       ELSE Paint(d, v, x, y, IF t % 2 = 1 THEN One(TRUE) ELSE Zero(TRUE))

\* one turn of a loop of timing_patterns, at distance t = dx + 8 (dy + 8)
\* along row 6 (row = TRUE) or along column 6 (row = FALSE)
TimingPut(d, v, row, t) ==
  LET x == IF row THEN t ELSE 6
      y == IF row THEN 6 ELSE t
  IN IF get(d, v, x, y)[1].functional
       THEN d
       ELSE Paint(d, v, x, y, IF t % 2 = 0 THEN One(TRUE) ELSE Zero(TRUE))

\* the turns dx (dy) = lo, ..., hi - 1 of a loop of timing_patterns
RECURSIVE TimingRange(_, _, _, _, _)
TimingRange(d, v, row, lo, hi) ==
  IF lo >= hi THEN d
  ELSE IF hi = lo + 1 THEN TimingPut(d, v, row, lo + 8)
  ELSE LET mid == (lo + hi) \div 2
           first == TimingRange(d, v, row, lo, mid)
       IN IF first[0].functional \in BOOLEAN
            THEN TimingRange(first, v, row, mid, hi)
            ELSE first

timing_patterns(d, v) ==
  LET length == size_from_version(v) - 16
  IN TimingRange(TimingRange(d, v, TRUE, 0, length), v, FALSE, 0, length)

\* (4 * self.version + 9) is u8 arithmetic: at most 169 for a version of
\* 1..40
dark_module(d, v) == Paint(d, v, 8, 4 * v + 9, One(TRUE))

\* bit b (0 = least significant) of the number n
BitOf(n, b) == (n \div (2 ^ b)) % 2

\* Bit::from(value, length, _, functional): the length low bits of value,
\* most significant first, each a Bit carrying the flag functional
Bit_from(value, length, msb_first, functional) ==
  [k \in 1..length |->
     LET b == IF msb_first THEN length - k ELSE k - 1
     IN IF BitOf(value, b) = 1 THEN One(functional) ELSE Zero(functional)]
  \o <<>>

FORMAT_BITS ==
  <<30660, 29427, 32170, 30877, 26159, 25368, 27713, 26998,
    21522, 20773, 24188, 23371, 17913, 16590, 20375, 19104,
    13663, 12392, 16177, 14854, 9396, 8579, 11994, 11245,
    5769, 5054, 7399, 6608, 1890, 597, 3340, 2107>>

\* a mutation of the index that takes the rows in the order M, L, Q, H
FormatIndexMFirst(level, mask) ==
  mask + (CASE level = "L" -> 8 * 1
            [] level = "M" -> 0
            [] level = "Q" -> 8 * 2
            [] level = "H" -> 8 * 3)

\* the index of format_information into FORMAT_BITS
FormatIndex(level, mask) ==
  mask + (CASE level = "L" -> 0
            [] level = "M" -> 8 * 1
            [] level = "Q" -> 8 * 2
            [] level = "H" -> 8 * 3)

\* the first loop of format_information from column x on, i the index of
\* the next bit; bits[i] panics past the end of bits
RECURSIVE FormatRow(_, _, _, _, _)
FormatRow(d, v, bits, x, i) ==
  IF x >= 9 THEN Ok(d)
  ELSE IF get(d, v, x, 8)[1].functional THEN FormatRow(d, v, bits, x + 1, i)
  ELSE IF i >= Len(bits) THEN Panicked
  ELSE FormatRow(Paint(d, v, x, 8, At0(bits, i)), v, bits, x + 1, i + 1)

\* let mut i = 7 before the second loop of format_information
FormatColumnStart == 7

\* the second loop of format_information, rows 8 down to 0: n rows are
\* left, the next is row n - 1
RECURSIVE FormatColumn(_, _, _, _, _)
FormatColumn(d, v, bits, n, i) ==
  IF n <= 0 THEN Ok(d)
  ELSE IF get(d, v, 8, n - 1)[1].functional
    THEN FormatColumn(d, v, bits, n - 1, i)
  ELSE IF i >= Len(bits) THEN Panicked
  ELSE FormatColumn(Paint(d, v, 8, n - 1, At0(bits, i)), v, bits, n - 1, i + 1)

\* the puts of the third and fourth loops of format_information
FormatCopyPuts(sz, bits) ==
  [k \in 1..7 |-> <<8, sz - k, At0(bits, k - 1)>>]
  \o [k \in 1..8 |-> <<(sz - 8) + (k - 1), 8, At0(bits, 7 + (k - 1))>>]

format_information(d, v, level, mask) ==
  LET index == FormatIndex(level, mask) IN
  IF index >= Len(FORMAT_BITS) THEN Panicked
  ELSE
    LET info_bit == At0(FORMAT_BITS, index)
        bits == Bit_from(info_bit, 15, TRUE, TRUE)
        row == FormatRow(d, v, bits, 0, 0)
    IN IF row.panic THEN Panicked
       ELSE LET column == FormatColumn(row.val, v, bits, 9, FormatColumnStart)
            IN IF column.panic THEN Panicked
               ELSE Ok(PutRange(column.val, v,
                                FormatCopyPuts(size_from_version(v), bits),
                                0, 15))

VERSION_BITS ==
  <<31892, 34236, 39577, 42195, 48118, 51042,
    55367, 58893, 63784, 68472, 70749, 76311,
    79154, 84390, 87683, 92361, 96236, 102084,
    102881, 110507, 110734, 117786, 119615, 126325,
    127568, 133589, 136944, 141498, 145311, 150283,
    152622, 158308, 161089, 167017>>

\* the puts of version_information: bottom left, then top right
VersionPuts(sz, bits) ==
  [k \in 1..18 |->
     <<(k - 1) \div 3, (sz - 11) + ((k - 1) % 3), At0(bits, k - 1)>>]
  \o [k \in 1..18 |->
     <<(sz - 11) + ((k - 1) % 3), (k - 1) \div 3, At0(bits, k - 1)>>]

\* the assert! of version_information panics below version 7
version_information(d, v) ==
  IF ~(v >= 7) THEN Panicked
  ELSE LET version_bits == At0(VERSION_BITS, v - 7)
           bits == Bit_from(version_bits, 18, TRUE, TRUE)
       IN Ok(PutRange(d, v, VersionPuts(size_from_version(v), bits), 0, 36))

all_functional_patterns(d, v, level, mask) ==
  LET painted == dark_module(
                   timing_patterns(
                     alignment_patterns(
                       separators_patterns(
                         finder_patterns(d, v), v), v), v), v)
      format == format_information(painted, v, level, mask)
  IN IF format.panic THEN Panicked
     ELSE IF v >= 7 THEN version_information(format.val, v)
     ELSE format

\* the versions all_functional_patterns is explored on
PatternVersions == 1..40

\* the versions explored with every EC level and every mask of 0..7; the
\* other versions are explored with the arguments of the tests of
\* qrcode.rs, EcLevel::L and mask 1
FormatVersions == {1, 2, 7}

\* a fresh matrix of every version, as QrCode::new returns it
PatternsInit ==
  /\ result = "Ok"
  /\ error = ""
  /\ version \in PatternVersions
  /\ data = NewData(version)
  /\ ec_level \in (IF version \in FormatVersions THEN EcLevels ELSE {"L"})
  /\ mask_pattern \in (IF version \in FormatVersions THEN 0..7 ELSE {1})
  /\ ret = <<"none">>
  /\ nops = 0
  /\ EcIdle
  /\ FillIdle

\* qr.finder_patterns() on the fresh matrix
FinderPatterns ==
  /\ ret = <<"none">>
  /\ data' = finder_patterns(data, version)
  /\ ret' = <<"finder_patterns">>
  /\ UNCHANGED <<result, error, version, ec_level, mask_pattern, nops,
                 ec_call, ec_ret, walk>>

\* qr.all_functional_patterns() on the fresh matrix
AllFunctionalPatterns ==
  /\ ret = <<"none">>
  /\ LET r == all_functional_patterns(data, version, ec_level, mask_pattern)
     IN IF r.panic
          THEN data' = data /\ ret' = <<"panic">>
          ELSE data' = r.val /\ ret' = <<"all_functional_patterns">>
  /\ UNCHANGED <<result, error, version, ec_level, mask_pattern, nops,
                 ec_call, ec_ret, walk>>

\* self.separators_patterns(), the painter after finder_patterns
SeparatorsPatterns ==
  /\ ret = <<"finder_patterns">>
  /\ data' = separators_patterns(data, version)
  /\ ret' = <<"separators_patterns">>
  /\ UNCHANGED <<result, error, version, ec_level, mask_pattern, nops,
                 ec_call, ec_ret, walk>>

\* the centres alignment_patterns hands to draw_alignment_pattern, in the
\* order of its calls
AlignmentCandidates(v) ==
  IF v = 1 THEN <<<<18, 18>>>> ELSE combination(At0(COORDS, v - 2))

\* the number of calls of draw_alignment_pattern made so far
AlignmentDrawn ==
  IF ret[1] = "draw_alignment_pattern" THEN ret[2] ELSE 0

\* self.alignment_patterns() after separators_patterns, one call of
\* draw_alignment_pattern at a time
DrawAlignmentPattern ==
  /\ ret[1] \in {"separators_patterns", "draw_alignment_pattern"}
  /\ AlignmentDrawn < Len(AlignmentCandidates(version))
  /\ LET centre == AlignmentCandidates(version)[AlignmentDrawn + 1]
     IN data' = draw_alignment_pattern(data, version, centre[1], centre[2])
  /\ ret' = <<"draw_alignment_pattern", AlignmentDrawn + 1>>
  /\ UNCHANGED <<result, error, version, ec_level, mask_pattern, nops,
                 ec_call, ec_ret, walk>>

PatternsNext ==
  \/ FinderPatterns
  \/ AllFunctionalPatterns
  \/ SeparatorsPatterns
  \/ DrawAlignmentPattern
SpecPatterns == PatternsInit /\ [][PatternsNext]_vars

-----------------------------------------------------------------------------
(* QrCode::fill.  The call is followed one turn of its inner loop at a     *)
(* time: the move to the next candidate module, the test of the functional *)
(* flag of the candidate and, where the flag is false, the put of the      *)
(* current bit and the step of the for loop to the next bit.               *)

\* if x == 7 { x -= 1; } after the x -= 1 of an edge
SkipTiming(x) == IF x = 7 THEN x - 1 ELSE x

\* a mutation of FillMove in which x -= 1 at column 0 re-enters the matrix
\* at its last column
FillMoveWrap(w, sz) ==
  IF w.up
    THEN IF w.y <= 0
           THEN Ok([w EXCEPT !.up = FALSE,
                             !.x = IF w.x = 0 THEN sz - 1
                                   ELSE SkipTiming(w.x - 1),
                             !.y = 0])
           ELSE IF w.i % 2 = 0
                  THEN Ok([w EXCEPT !.x = IF w.x = 0 THEN sz - 1
                                             ELSE w.x - 1,
                                    !.i = w.i + 1])
                  ELSE Ok([w EXCEPT !.x = IF w.x = sz - 1 THEN 0
                                             ELSE w.x + 1,
                                    !.y = w.y - 1, !.i = w.i + 1])
    ELSE IF w.y >= sz - 1
           THEN Ok([w EXCEPT !.up = TRUE,
                             !.x = IF w.x = 0 THEN sz - 1
                                   ELSE SkipTiming(w.x - 1),
                             !.y = sz - 1])
           ELSE IF w.i % 2 = 0
                  THEN Ok([w EXCEPT !.x = IF w.x = 0 THEN sz - 1
                                             ELSE w.x - 1,
                                    !.i = w.i + 1])
                  ELSE Ok([w EXCEPT !.x = IF w.x = sz - 1 THEN 0
                                             ELSE w.x + 1,
                                    !.y = w.y + 1, !.i = w.i + 1])

\* the match on up: the locals after the move.  x -= 1 at x = 0 panics in
\* a debug build; in a release build it wraps to a column outside of the
\* matrix, for which get(..) is None and its unwrap panics
FillMove(w, sz) ==
  IF w.up
    THEN IF w.y <= 0
           THEN IF w.x = 0 THEN Panicked
                ELSE Ok([w EXCEPT !.up = FALSE, !.x = SkipTiming(w.x - 1),
                                  !.y = 0])
           ELSE IF w.i % 2 = 0
                  THEN IF w.x = 0 THEN Panicked
                       ELSE Ok([w EXCEPT !.x = w.x - 1, !.i = w.i + 1])
                  ELSE Ok([w EXCEPT !.x = w.x + 1, !.y = w.y - 1,
                                    !.i = w.i + 1])
    ELSE IF w.y >= sz - 1
           THEN IF w.x = 0 THEN Panicked
                ELSE Ok([w EXCEPT !.up = TRUE, !.x = SkipTiming(w.x - 1),
                                  !.y = sz - 1])
           ELSE IF w.i % 2 = 0
                  THEN IF w.x = 0 THEN Panicked
                       ELSE Ok([w EXCEPT !.x = w.x - 1, !.i = w.i + 1])
                  ELSE Ok([w EXCEPT !.x = w.x + 1, !.y = w.y + 1,
                                    !.i = w.i + 1])

\* a mutation of the test before the put that breaks on every candidate
IsFunctionalNever(module) == FALSE

\* module.is_functional() of the test that ends the inner loop
IsFunctional(module) == module.functional

\* the indices of the modules of d whose functional flag is false
NonFunctional(d) == {idx \in DOMAIN d : ~ d[idx].functional}

\* the input streams of the exploration: "data" carries functional = false
\* on every bit, as the bits of codewords do; "flagged" carries
\* functional = true on every third bit
Streams == {"data", "flagged"}

BitStream(stream, length) ==
  [k \in 1..length |->
     IF stream = "data"
       THEN [value |-> ((5 * k) \div 3) % 2, functional |-> FALSE]
       ELSE [value |-> k % 2, functional |-> (k % 3 = 0)]] \o <<>>

\* the lengths of the input: none, two bits, one bit for each
\* non-functional module, and more bits than the walk can place
FillLengths(d, sz) == {0, 2, Cardinality(NonFunctional(d)), 2 * sz * sz}

\* the versions fill is explored on
FillVersions == 1..MaxFillVersion

\* fill is called on a fresh matrix or on one that all_functional_patterns
\* has painted; the masks other than 1 are explored on the painted matrix
\* with one data bit for each non-functional module
FillInit ==
  /\ result = "Ok"
  /\ error = ""
  /\ version \in FillVersions
  /\ ec_level = "L"
  /\ mask_pattern \in 0..7
  /\ \E painted \in BOOLEAN, stream \in Streams :
       /\ data = IF painted
                   THEN all_functional_patterns(NewData(version), version,
                                                ec_level, mask_pattern).val
                   ELSE NewData(version)
       /\ \E length \in FillLengths(data, size) :
            /\ mask_pattern # 1 =>
                 /\ painted
                 /\ stream = "data"
                 /\ length = Cardinality(NonFunctional(data))
            /\ walk = [pc |-> "called", bits |-> BitStream(stream, length)]
  /\ ret = <<"none">>
  /\ nops = 0
  /\ EcIdle

\* the call qr.fill(bits), up to the head of the for loop
Fill ==
  /\ walk.pc = "called"
  /\ walk' = [pc |-> IF Len(walk.bits) = 0 THEN "returned" ELSE "loop",
              bits |-> walk.bits,
              n |-> 0,            \* the bits the for loop has consumed
              x |-> size - 1, y |-> size - 1, up |-> TRUE, i |-> 0,
              start |-> data,     \* the matrix at the call
              written |-> <<>>]   \* the coordinates of the puts, in order
  /\ UNCHANGED <<result, error, data, version, ec_level, mask_pattern, ret,
                 nops, ec_call, ec_ret>>

\* one turn of the inner loop
FillStep ==
  /\ walk.pc = "loop"
  /\ LET moved == FillMove(walk, size) IN
     IF moved.panic
       THEN /\ walk' = [walk EXCEPT !.pc = "panicked"]
            /\ data' = data
       ELSE LET w == moved.val
                module == get(data, version, w.x, w.y)
            IN IF module = None
                 THEN /\ walk' = [w EXCEPT !.pc = "panicked"]
                      /\ data' = data
                 ELSE IF IsFunctional(module[1])
                   THEN /\ walk' = w
                        /\ data' = data
                   ELSE /\ data' = Paint(data, version, w.x, w.y,
                                         w.bits[w.n + 1])
                        /\ walk' = [w EXCEPT
                             !.n = w.n + 1,
                             !.written = Append(w.written, <<w.x, w.y>>),
                             !.pc = IF w.n + 1 >= Len(w.bits)
                                      THEN "returned" ELSE "loop"]
  /\ UNCHANGED <<result, error, version, ec_level, mask_pattern, ret, nops,
                 ec_call, ec_ret>>

FillNext == Fill \/ FillStep
SpecFill == FillInit /\ [][FillNext]_vars

\* fill is sequential code: a call that has a next step takes it
SpecFillFair == FillInit /\ [][FillNext]_vars /\ WF_vars(FillNext)

-----------------------------------------------------------------------------
(* Claims about QrCode::fill.                                              *)

\* a call of fill has started: its locals and its history exist
FillStarted == walk.pc \in {"loop", "returned", "panicked"}

\* C11: fill writes only to modules whose functional flag is false at the
\* moment of the write (a step of fill leaves every module that is
\* functional before the step as it is), and every module that is
\* functional when fill starts has the same value and flag while fill
\* runs, when it has returned and when it has panicked.
C11_FillKeepsFunctional ==
  [][/\ \A idx \in DOMAIN data :
          data[idx].functional => data'[idx] = data[idx]
     /\ FillStarted' =>
          \A idx \in DOMAIN data' :
            walk'.start[idx].functional => data'[idx] = walk'.start[idx]]_vars

\* fill has returned after puts on a version-2 matrix that
\* all_functional_patterns painted: the finder module (0, 0) is functional
\* and the matrix is not the one fill started on
C11_Witness ==
  /\ walk.pc = "returned"
  /\ version = 2
  /\ Len(walk.written) = Cardinality(NonFunctional(walk.start))
  /\ walk.start[0].functional
  /\ data # walk.start

\* the matrix fill started on is the one all_functional_patterns paints
StartPainted ==
  walk.start = all_functional_patterns(NewData(version), version, ec_level,
                                       mask_pattern).val

\* fill was given one bit carrying functional = false for each
\* non-functional module of the matrix it started on
OneBitPerModule ==
  /\ Len(walk.bits) = Cardinality(NonFunctional(walk.start))
  /\ \A k \in DOMAIN walk.bits : ~ walk.bits[k].functional

\* C12: after all_functional_patterns, when fill is given exactly as many
\* bits (each with functional = false) as there are non-functional modules,
\* it consumes all of them, no module is written twice and no
\* non-functional module is left unwritten.
C12_FillWritesEachModuleOnce ==
  (walk.pc \in {"returned", "panicked"} /\ StartPainted /\ OneBitPerModule) =>
    /\ walk.pc = "returned"
    /\ walk.n = Len(walk.bits)
    /\ \A j, k \in DOMAIN walk.written :
         j # k => walk.written[j] # walk.written[k]
    /\ {coords_to_index(xy[1], xy[2], size)[1] :
           xy \in {walk.written[k] : k \in DOMAIN walk.written}}
         = NonFunctional(walk.start)

\* the predicate of mask index m at column x and row y
MaskPredicate(m, x, y) ==
  CASE m = 0 -> (x + y) % 2 = 0
    [] m = 1 -> y % 2 = 0
    [] m = 2 -> x % 3 = 0
    [] m = 3 -> (x + y) % 3 = 0
    [] m = 4 -> ((y \div 2) + (x \div 3)) % 2 = 0
    [] m = 5 -> ((x * y) % 2) + ((x * y) % 3) = 0
    [] m = 6 -> (((x * y) % 2) + ((x * y) % 3)) % 2 = 0
    [] m = 7 -> (((x + y) % 2) + ((x * y) % 3)) % 2 = 0

\* C13: the value fill stores at a non-functional module (x, y) is the
\* input bit inverted exactly when the predicate of the mask index of the
\* symbol holds at (x, y), and the input bit otherwise.  Stated of the
\* latest put of fill, in the state that follows it.
C13_FillAppliesMask ==
  (FillStarted /\ Len(walk.written) > 0) =>
    LET xy == walk.written[Len(walk.written)]
        bit == walk.bits[Len(walk.written)]
        stored == get(data, version, xy[1], xy[2])[1]
    IN stored.value = IF MaskPredicate(mask_pattern, xy[1], xy[2])
                        THEN 1 - bit.value
                        ELSE bit.value

-----------------------------------------------------------------------------
(* Claims about the functional patterns.                                   *)

\* the module (x, y) of the matrix held in the variables
Module(x, y) == get(data, version, x, y)[1]

\* the regions of a symbol of size sz: the three finders with their
\* separators, the timing row and column, the dark module of version v and
\* the two copies of the format information
InFinderOrSeparator(x, y, sz) ==
  \/ x <= 7 /\ y <= 7
  \/ x >= sz - 8 /\ y <= 7
  \/ x <= 7 /\ y >= sz - 8
InTiming(x, y, sz) ==
  \/ y = 6 /\ x >= 8 /\ x <= sz - 9
  \/ x = 6 /\ y >= 8 /\ y <= sz - 9
IsDarkModule(x, y, v) == x = 8 /\ y = 4 * v + 9
InFormat(x, y, sz) ==
  \/ y = 8 /\ (x <= 8 \/ x >= sz - 8)
  \/ x = 8 /\ (y <= 8 \/ y >= sz - 7)

\* C14: for version 1 no alignment pattern is painted: after
\* all_functional_patterns on a version-1 matrix every functional module
\* belongs to a finder, a separator, a timing pattern, the dark module or
\* the format information, and the modules (x, y) with 16 <= x, y <= 20
\* are all non-functional.
C14_Version1HasNoAlignment ==
  (ret = <<"all_functional_patterns">> /\ version = 1) =>
    /\ \A x \in 0..(size - 1), y \in 0..(size - 1) :
         Module(x, y).functional =>
           \/ InFinderOrSeparator(x, y, size)
           \/ InTiming(x, y, size)
           \/ IsDarkModule(x, y, version)
           \/ InFormat(x, y, size)
    /\ \A x \in 16..20, y \in 16..20 : ~ Module(x, y).functional

\* the finder layout at offset (dx, dy) of its 7x7 square: a dark outer
\* ring, a light inner ring and a dark 3x3 core
FinderLayout(dx, dy) ==
  IF dx \in {0, 6} \/ dy \in {0, 6} THEN 1
  ELSE IF dx \in {1, 5} \/ dy \in {1, 5} THEN 0
  ELSE 1

\* the top-left corners of the three finder squares of a symbol of size sz
FinderSquares(sz) == {<<0, 0>>, <<sz - 7, 0>>, <<0, sz - 7>>}

InFinderSquare(x, y, sz) ==
  \E c \in FinderSquares(sz) :
    x >= c[1] /\ x <= c[1] + 6 /\ y >= c[2] /\ y <= c[2] + 6

\* C15: after finder_patterns on a fresh matrix of any version, each of the
\* three 7x7 squares with top-left corners (0,0), (S-7,0) and (0,S-7) holds
\* the finder layout with functional = true on all 49 modules, and every
\* module outside the three squares is still value 0 and non-functional.
C15_FinderPatterns ==
  ret = <<"finder_patterns">> =>
    /\ \A c \in FinderSquares(size), dx \in 0..6, dy \in 0..6 :
         Module(c[1] + dx, c[2] + dy)
           = [value |-> FinderLayout(dx, dy), functional |-> TRUE]
    /\ \A x \in 0..(size - 1), y \in 0..(size - 1) :
         ~ InFinderSquare(x, y, size) => Module(x, y) = Zero(FALSE)

\* finder_patterns has run on a version-1 matrix: the corner (14, 0) of the
\* top-right square is dark and functional, (14, 14) is untouched
C15_Witness ==
  /\ ret = <<"finder_patterns">>
  /\ version = 1
  /\ Module(14, 0) = One(TRUE)
  /\ Module(15, 1) = Zero(TRUE)
  /\ Module(14, 14) = Zero(FALSE)

\* the 15 format bits of the symbol held in the variables, in the order
\* format_information indexes them: b0 is bits[0]
FormatBitsOfSymbol ==
  Bit_from(At0(FORMAT_BITS, FormatIndex(ec_level, mask_pattern)), 15,
           TRUE, TRUE)

\* the modules of the first copy: row 8 for b0..b7, column 8 for b8..b14
FormatRowColumns == <<0, 1, 2, 3, 4, 5, 7, 8>>
FormatColumnRows == <<7, 5, 4, 3, 2, 1, 0>>

\* C16: after all_functional_patterns, with b0..b14 the 15 format bits in
\* painting order, modules (0,8)..(5,8), (7,8), (8,8) hold b0..b7 in that
\* order and modules (8,7), (8,5), (8,4), (8,3), (8,2), (8,1), (8,0) hold
\* b8..b14 in that order, while (6,8) and (8,6) keep their timing-pattern
\* values.
C16_FormatFirstCopy ==
  ret = <<"all_functional_patterns">> =>
    /\ \A k \in 0..7 :
         Module(At0(FormatRowColumns, k), 8) = At0(FormatBitsOfSymbol, k)
    /\ \A k \in 0..6 :
         Module(8, At0(FormatColumnRows, k)) = At0(FormatBitsOfSymbol, 8 + k)
    /\ Module(6, 8) = One(TRUE)
    /\ Module(8, 6) = One(TRUE)

\* the bitwise exclusive or of two numbers of n bits
RECURSIVE XorWord(_, _, _)
XorWord(a, b, n) ==
  IF n = 0 THEN 0
  ELSE ((a + b) % 2) + 2 * XorWord(a \div 2, b \div 2, n - 1)

\* the two EC level bits of the standard
EcLevelBits(level) ==
  CASE level = "L" -> 1
    [] level = "M" -> 0
    [] level = "Q" -> 3
    [] level = "H" -> 2

\* the remainder of the division of r by the BCH(15,5) generator 0x537,
\* from bit i down to bit 10
RECURSIVE BchRemainder(_, _)
BchRemainder(r, i) ==
  IF i < 10 THEN r
  ELSE BchRemainder(IF BitOf(r, i) = 1
                      THEN XorWord(r, 1335 * (2 ^ (i - 10)), 15)
                      ELSE r,
                    i - 1)

\* the standard format word: the BCH(15,5) codeword of the 5-bit value
\* (ec_level_bits << 3) | m, XORed with 0x5412
StandardFormatWord(level, m) ==
  LET value == EcLevelBits(level) * 8 + m
  IN XorWord(value * 1024 + BchRemainder(value * 1024, 14), 21522, 15)

\* C17: for every EC level e (ordinal L = 0, M = 1, Q = 2, H = 3) and mask
\* index m in 0..7, format_information selects table entry e * 8 + m, and
\* that entry equals the standard 15-bit format word; the second copy of
\* the format information, painted from the selected entry, holds its bits.
C17_FormatWordIsStandard ==
  (ret = <<"all_functional_patterns">> /\ mask_pattern \in 0..7) =>
    LET word == StandardFormatWord(ec_level, mask_pattern)
        bits == Bit_from(word, 15, TRUE, TRUE)
    IN /\ FormatIndex(ec_level, mask_pattern)
            = ordinal(ec_level) * 8 + mask_pattern
       /\ At0(FORMAT_BITS, FormatIndex(ec_level, mask_pattern)) = word
       /\ \A k \in 0..6 : Module(8, size - 1 - k) = At0(bits, k)
       /\ \A k \in 7..14 : Module(size - 8 + (k - 7), 8) = At0(bits, k)

\* all_functional_patterns has painted a version-1 symbol of level Q and
\* mask 5, whose format word is 0x2183
C17_Witness ==
  /\ ret = <<"all_functional_patterns">>
  /\ version = 1
  /\ ec_level = "Q"
  /\ mask_pattern = 5
  /\ StandardFormatWord("Q", 5) = 8579
  /\ Module(8, size - 1) = Zero(TRUE)
  /\ Module(size - 1, 8) = One(TRUE)

-----------------------------------------------------------------------------
(* Claims about the EC blocks of error_correction.                         *)

\* the EC blocks that the call error_correction(d, v, level) computes
\* before it interleaves them: none when the call panics before
EcBlocksComputed(d, v, level) ==
  LET row == At0(At0(DATA_BYTES_PER_BLOCK, v - 1), ordinal(level))
      blocks == split_blocks(d, row[1], row[2], row[3], row[4])
  IN IF blocks.panic THEN <<>>
     ELSE LET ec_blocks == ec_blocks_of(blocks.val, v, ordinal(level))
          IN IF ec_blocks.panic THEN <<>> ELSE ec_blocks.val

\* C18: for every version V in 1..40 and every EC level, each EC block
\* computed inside error_correction has length equal to the
\* EC-codewords-per-block entry of that same version V (7 for version 1
\* level L, 10 for version 2 level L).
C18_EcBlockLengthOfVersion ==
  (ec_call.fn = "error_correction" /\ ec_ret.status # "pending"
     /\ ec_call.version \in 1..40) =>
    LET ec_blocks == EcBlocksComputed(ec_call.data, ec_call.version,
                                      ec_call.ec_level)
    IN \A b \in DOMAIN ec_blocks :
         Len(ec_blocks[b]) = PipelineEcSize(ec_call.version, ec_call.ec_level)

-----------------------------------------------------------------------------
(* Claims about the path of the data walk.                                 *)

\* a step of fill from one candidate module to the next
WalkStep ==
  /\ walk.pc = "loop"
  /\ walk'.pc \in {"loop", "returned"}

\* the modules (S-1, S-1) and (S-2, S-1) of the matrix fill started on are
\* non-functional
StartFree(w) ==
  /\ ~ get(w.start, version, size - 1, size - 1)[1].functional
  /\ ~ get(w.start, version, size - 2, size - 1)[1].functional

\* C19: the data walk starts at (S-1, S-1): on a matrix whose modules
\* (S-1, S-1) and (S-2, S-1) are non-functional, fill writes the first
\* input bit at (S-1, S-1) and the second at (S-2, S-1); within a column
\* pair (no edge is crossed: up stays) a step goes from the right module
\* to the left module of the same row, or from the left module to the
\* right module of the next row in the current direction.
C19_WalkStartsAtCorner ==
  [][WalkStep =>
       /\ StartFree(walk') =>
            /\ Len(walk'.written) >= 1 =>
                 walk'.written[1] = <<size - 1, size - 1>>
            /\ Len(walk'.written) >= 2 =>
                 walk'.written[2] = <<size - 2, size - 1>>
       /\ walk'.up = walk.up =>
            \/ walk'.x = walk.x - 1 /\ walk'.y = walk.y
            \/ /\ walk'.x = walk.x + 1
               /\ walk'.y = IF walk.up THEN walk.y - 1 ELSE walk.y + 1]_vars

\* the right column of the column pair that column x belongs to, the
\* pairs being (S-1, S-2), ..., (8, 7), (5, 4), (3, 2), (1, 0)
PairRight(x) ==
  IF x >= 7 THEN (IF x % 2 = 0 THEN x ELSE x + 1)
  ELSE (IF x % 2 = 1 THEN x ELSE x + 1)

\* C20: over a complete data walk the right column of successive column
\* pairs is S-1, S-3, ..., 8, 5, 3, 1: a step that reverses the vertical
\* direction moves to the pair whose right column is 2 less (3 less from
\* 8 to 5), a step that keeps the direction stays in its pair, so that no
\* column belongs to two pairs, and no candidate module is at x = 6.
C20_ColumnPairs ==
  [][WalkStep =>
       /\ walk'.x # 6
       /\ walk'.up = walk.up => PairRight(walk'.x) = PairRight(walk.x)
       /\ walk'.up # walk.up =>
            \/ PairRight(walk'.x) = PairRight(walk.x) - 2
            \/ PairRight(walk.x) = 8 /\ PairRight(walk'.x) = 5]_vars

-----------------------------------------------------------------------------
(* Claims about the alignment and timing patterns.                         *)

\* the alignment layout at offset (dx, dy) of its 5x5 square: a dark ring,
\* a light ring and a dark centre
AlignmentLayout(dx, dy) ==
  IF dx \in {0, 4} \/ dy \in {0, 4} THEN 1
  ELSE IF dx = 2 /\ dy = 2 THEN 1
  ELSE 0

\* the coordinates that a finder or a separator can cover in a symbol of
\* size sz
CornerCoords(sz) == (0..7) \cup ((sz - 8)..(sz - 1))

\* C21: for every version V >= 2, alignment_patterns (run after finders
\* and separators) paints the 5x5 alignment pattern at a candidate centre
\* (cx, cy) of the Cartesian product of the centre list of the version
\* exactly when the centre module is non-functional at the moment of the
\* call: the three candidates inside finder patterns, (6,6), (6,max) and
\* (max,6), are suppressed and leave the matrix as it is, every other
\* candidate is painted, and no finder or separator module is changed.
C21_AlignmentSuppression ==
  [][(ret'[1] = "draw_alignment_pattern" /\ version >= 2) =>
       LET centre == AlignmentCandidates(version)[ret'[2]]
           cx == centre[1]
           cy == centre[2]
           centres == At0(COORDS, version - 2)
           max == centres[Len(centres)]
           functional == get(data, version, cx, cy)[1].functional
       IN /\ functional <=> centre \in {<<6, 6>>, <<6, max>>, <<max, 6>>}
          /\ IF functional
               THEN data' = data
               ELSE \A dx \in 0..4, dy \in 0..4 :
                      get(data', version, cx - 2 + dx, cy - 2 + dy)[1]
                        = [value |-> AlignmentLayout(dx, dy),
                           functional |-> TRUE]
          /\ \A x \in CornerCoords(size), y \in CornerCoords(size) :
               InFinderOrSeparator(x, y, size) =>
                 get(data', version, x, y) = get(data, version, x, y)]_vars

\* the nine calls of draw_alignment_pattern of version 7 are over: the
\* pattern at (22, 22) and the one on the timing column at (6, 22) are
\* painted, and nothing is painted around (38, 6) in the top-right finder
C21_Witness ==
  /\ ret = <<"draw_alignment_pattern", 9>>
  /\ version = 7
  /\ Module(22, 22) = One(TRUE)
  /\ Module(21, 22) = Zero(TRUE)
  /\ Module(6, 22) = One(TRUE)
  /\ Module(36, 4) = Zero(FALSE)
  /\ Module(38, 6) = One(TRUE)

\* C22: after all_functional_patterns, for every version, every module
\* (x, 6) with 8 <= x <= S-9 and every module (6, y) with 8 <= y <= S-9 is
\* functional and is dark exactly when its traversing coordinate is even,
\* the modules that an alignment pattern painted before timing_patterns
\* included.
C22_TimingLines ==
  ret = <<"all_functional_patterns">> =>
    \A t \in 8..(size - 9) :
      /\ Module(t, 6) = [value |-> IF t % 2 = 0 THEN 1 ELSE 0,
                         functional |-> TRUE]
      /\ Module(6, t) = [value |-> IF t % 2 = 0 THEN 1 ELSE 0,
                         functional |-> TRUE]

\* all_functional_patterns has painted a version-7 symbol: the alignment
\* pattern centred at (22, 6) lies over the timing row (its ring reaches
\* (22, 4)), and the timing modules inside and outside of it alternate
C22_Witness ==
  /\ ret = <<"all_functional_patterns">>
  /\ version = 7
  /\ Module(22, 4) = One(TRUE)
  /\ Module(22, 6) = One(TRUE)
  /\ Module(21, 6) = Zero(TRUE)
  /\ Module(10, 6) = One(TRUE)
  /\ Module(6, 9) = Zero(TRUE)

-----------------------------------------------------------------------------
(* Claims about the blocks of error_correction.                            *)

\* the data blocks that the call error_correction(d, v, level) forms
DataBlocksFormed(d, v, level) ==
  LET row == At0(At0(DATA_BYTES_PER_BLOCK, v - 1), ordinal(level))
  IN split_blocks(d, row[1], row[2], row[3], row[4])

\* C23: for data codewords of the prescribed length, error_correction
\* forms block_1_count blocks of block_1_size consecutive codewords
\* followed by block_2_count blocks of block_2_size consecutive codewords,
\* taken in stream order with no codeword dropped or duplicated, and
\* computes one EC block per data block in that same order: EC block b is
\* the Reed-Solomon remainder, of its own length, of data block b.
C23_BlocksInStreamOrder ==
  (PrescribedCallDone /\ ec_call.version \in 1..40) =>
    LET d == ec_call.data
        v == ec_call.version
        level == ec_call.ec_level
        row == At0(At0(DATA_BYTES_PER_BLOCK, v - 1), ordinal(level))
        formed == DataBlocksFormed(d, v, level)
        ec_blocks == EcBlocksComputed(d, v, level)
    IN /\ ~ formed.panic
       /\ Len(formed.val) = row[2] + row[4]
       /\ \A b \in 1..Len(formed.val) :
            Len(formed.val[b]) = IF b <= row[2] THEN row[1] ELSE row[3]
       /\ ConcatRange(formed.val, 0, Len(formed.val)) = d
       /\ formed.val = PipelineBlocks(d, v, level)
       /\ Len(ec_blocks) = Len(formed.val)
       /\ \A b \in 1..Len(ec_blocks) :
            /\ Len(ec_blocks[b]) \in 1..(Len(GENERATOR_POLYNOMIALS) - 1)
            /\ ec_blocks[b]
                 = create_ec_for_block(
                     formed.val[b], Len(ec_blocks[b]),
                     At0(GENERATOR_POLYNOMIALS, Len(ec_blocks[b])))

-----------------------------------------------------------------------------
(* Claims about the end of fill.                                           *)

\* C24: fill ends after finitely many steps for every matrix state and
\* every input bit sequence: the call returns or panics, the walk stays
\* inside the matrix and makes at most 2 (S-1) (S-2) moves inside column
\* pairs (it never re-enters the matrix), it returns only when every bit
\* is placed, and it panics, at column 0 with bits left over, when more
\* bits are supplied than the walk can place.
C24_FillTerminates ==
  /\ <>(walk.pc \in {"returned", "panicked"})
  /\ [](FillStarted =>
          /\ walk.x \in 0..(size - 1)
          /\ walk.y \in 0..(size - 1)
          /\ walk.i <= 2 * (size - 1) * (size - 2)
          /\ walk.pc = "returned" => walk.n = Len(walk.bits)
          /\ walk.pc = "panicked" =>
               walk.x = 0 /\ walk.n < Len(walk.bits))

\* fill was given more bits than the walk can place on the fresh
\* version-1 matrix and has panicked at column 0 with bits left over
C24_Witness ==
  /\ walk.pc = "panicked"
  /\ version = 1
  /\ walk.x = 0
  /\ walk.n > 0
  /\ walk.n < Len(walk.bits)
  /\ NonFunctional(walk.start) = DOMAIN walk.start

====
